---- MODULE Spec2Model ----
(***************************************************************************)
(* Hard Way Home: the workout lifecycle (useWorkoutRecording), the         *)
(* background location task, the heart-rate service, the SQLite store and  *)
(* the backup procedure, as a state machine.                               *)
(*                                                                         *)
(* Conventions of the model                                                *)
(*  - Timestamps are integers read from the clock `now` (the code stores   *)
(*    new Date().toISOString(); only their order and equality are used).   *)
(*  - A position is an integer number of metres along one meridian: for    *)
(*    two points of equal longitude haversineMetres is R * |dLat|, so the  *)
(*    distance between two model positions is |lat1 - lat2|.               *)
(*  - NULL stands for SQL NULL / JS null in integer-valued fields.         *)
(***************************************************************************)
EXTENDS Integers, Sequences, FiniteSets, Bags, TLC

\* ------------------------------------------------------------------ bounds
MaxWorkouts == 1      \* rows ever inserted into workouts
MaxSamples == 1       \* rows ever inserted into trackpoints and pulses together
MaxTime == 1          \* last value of the clock
MaxCalls == 1         \* async invocations of the hook in flight at once
MaxLen == 3           \* samples in the argument of a pure function
MaxOld == 11          \* snapshot files earlier runs left in Documents/backups

\* the limits of a run: those of Spec; those of SpecWide, which leaves room for
\* a second workout and for two overlapping invocations; those of SpecFinish,
\* which leaves room for a second sample; those of SpecLinkEnd, which leaves room
\* for a retry schedule beside a call of the hook
Limits == [workouts |-> MaxWorkouts, samples |-> MaxSamples, time |-> MaxTime,
           calls |-> MaxCalls]
WideLimits == [Limits EXCEPT !.workouts = MaxWorkouts + 1, !.calls = MaxCalls + 1]
FinishLimits == [Limits EXCEPT !.samples = MaxSamples + 1]
LinkEndLimits == [Limits EXCEPT !.calls = MaxCalls + 1]
BackupLimits == [Limits EXCEPT !.time = MaxTime + 1, !.calls = MaxCalls + 1]

NULL == -1

Inst == {"home", "workout"}   \* app/index.tsx and app/workout.tsx each mount the hook

\* ------------------------------------------------------------------ state
VARIABLES
  lim,            \* the limits of this run (never changes)
  workouts,       \* table workouts: id -> row
  wseq,           \* AUTOINCREMENT counter of workouts
  trackpoints,    \* table trackpoints, in rowid order
  pulses,         \* table pulses, in rowid order
  now,            \* the clock
  mounted,        \* which hook instances are mounted
  activeWorkout,  \* React state activeWorkout of each instance (its id)
  hrActiveId,     \* heartrate.ts _activeWorkoutId
  locRegs,        \* registrations of BACKGROUND_LOCATION_TASK in effect
  calls,          \* async invocations in flight (start, finish, discard, resume)
  task,           \* the background location task's execution context
  backupStatus,   \* backup.ts _status
  uploads,        \* backupDatabase() runs suspended on webdavUpload
  snapshot,       \* the snapshot file: whether one was produced, its content, and
                  \* whether a row was committed while the call was running
  snapBase,       \* createSnapshot: whether a call is running, and the store
                  \* content when it began
  lastEvent,      \* history: "killed" (the process was terminated while a workout
                  \* was active), "resumed" (and the mount effect has run since),
                  \* "denied" (a start() returned at the permission check),
                  \* "swallowed" (the location task caught a failing store call),
                  \* "none"
  link,           \* heartrate.ts module state and the monitor it talks to
  retries,        \* the tryReconnect closures alive, each with its own counter
  calc,           \* one call of a pure function: its argument and what it returned
  bk,             \* one run of the backup procedure and the files it works on
  effectDep       \* app/workout.tsx: the activeWorkout?.id the screen's
                  \* setActiveWorkoutId effect last ran with

store == <<workouts, wseq, trackpoints, pulses>>
vars == <<lim, workouts, wseq, trackpoints, pulses, now, mounted, activeWorkout,
          hrActiveId, locRegs, calls, task, backupStatus, uploads,
          snapshot, snapBase, lastEvent, link, retries, calc, bk, effectDep>>

snapVars == <<snapshot, snapBase>>
backupVars == <<backupStatus, uploads>>
linkVars == <<link, retries>>
pureVars == <<calc, bk>>

\* ------------------------------------------------------- pure helpers
Abs(x) == IF x < 0 THEN -x ELSE x

\* distance.ts haversineMetres, for two points of one meridian
haversineMetres(lat1, lat2) == Abs(lat2 - lat1)

RECURSIVE SumSeq(_)
SumSeq(s) == IF s = <<>> THEN 0 ELSE Head(s) + SumSeq(Tail(s))

\* stable insertion of row r into s, which is sorted by created_at
RECURSIVE InsertSorted(_, _)
\* insertion that puts r before the rows of s with an equal created_at
RECURSIVE InsertBeforeEqual(_, _)
InsertBeforeEqual(s, r) ==
  IF s = <<>> THEN <<r>>
  ELSE IF Head(s).created_at < r.created_at
       THEN <<Head(s)>> \o InsertBeforeEqual(Tail(s), r)
       ELSE <<r>> \o s

InsertSorted(s, r) ==
  IF s = <<>> THEN <<r>>
  ELSE IF Head(s).created_at <= r.created_at
       THEN <<Head(s)>> \o InsertSorted(Tail(s), r)
       ELSE <<r>> \o s

\* ORDER BY created_at ASC over rows taken in rowid order
RECURSIVE OrderByCreatedAt(_)
OrderByCreatedAt(s) ==
  IF s = <<>> THEN <<>>
  ELSE InsertSorted(OrderByCreatedAt(SubSeq(s, 1, Len(s) - 1)), s[Len(s)])

\* ------------------------------------------------------- trackpoints.ts
GPS_ERR_THRESHOLD == 20
MAX_SPEED_MS == 14

\* trackpointDistance: the sum of the distances of consecutive rows
RECURSIVE trackpointDistance(_)
trackpointDistance(s) ==
  IF Len(s) < 2 THEN 0
  ELSE haversineMetres(s[1].lat, s[2].lat) + trackpointDistance(Tail(s))

\* stage 2 of the filter: dt > 0 && dist / dt > MAX_SPEED_MS, against the last
\* accepted point
ImpliesTeleport(prev, tp) ==
  LET dist == haversineMetres(prev.lat, tp.lat)
      dt == tp.created_at - prev.created_at
  IN dt > 0 /\ dist > MAX_SPEED_MS * dt

\* the same loop with the accuracy gate written err > GPS_ERR_THRESHOLD
RECURSIVE FilterLoopLax(_, _)
FilterLoopLax(result, rest) ==
  IF rest = <<>> THEN result
  ELSE LET tp == Head(rest)
       IN IF tp.err = NULL \/ tp.err > GPS_ERR_THRESHOLD
          THEN FilterLoopLax(result, Tail(rest))
          ELSE IF result # <<>> /\ ImpliesTeleport(result[Len(result)], tp)
               THEN FilterLoopLax(result, Tail(rest))
               ELSE FilterLoopLax(Append(result, tp), Tail(rest))

\* the same loop with result.unshift(tp) for result.push(tp)
RECURSIVE FilterLoopUnshift(_, _)
FilterLoopUnshift(result, rest) ==
  IF rest = <<>> THEN result
  ELSE LET tp == Head(rest)
       IN IF tp.err = NULL \/ tp.err >= GPS_ERR_THRESHOLD
          THEN FilterLoopUnshift(result, Tail(rest))
          ELSE IF result # <<>> /\ ImpliesTeleport(result[Len(result)], tp)
               THEN FilterLoopUnshift(result, Tail(rest))
               ELSE FilterLoopUnshift(<<tp>> \o result, Tail(rest))

\* the same loop with a teleporting point taking the place of the last accepted
\* one
RECURSIVE FilterLoopReplace(_, _)
FilterLoopReplace(result, rest) ==
  IF rest = <<>> THEN result
  ELSE LET tp == Head(rest)
       IN IF tp.err = NULL \/ tp.err >= GPS_ERR_THRESHOLD
          THEN FilterLoopReplace(result, Tail(rest))
          ELSE IF result # <<>> /\ ImpliesTeleport(result[Len(result)], tp)
               THEN FilterLoopReplace(Append(SubSeq(result, 1, Len(result) - 1), tp),
                                      Tail(rest))
               ELSE FilterLoopReplace(Append(result, tp), Tail(rest))

\* the loop of filterReliableTrackpoints: result so far, rows still to visit
RECURSIVE FilterLoop(_, _)
FilterLoop(result, rest) ==
  IF rest = <<>> THEN result
  ELSE LET tp == Head(rest)
       IN IF tp.err = NULL \/ tp.err >= GPS_ERR_THRESHOLD
          THEN FilterLoop(result, Tail(rest))
          ELSE IF result # <<>> /\ ImpliesTeleport(result[Len(result)], tp)
               THEN FilterLoop(result, Tail(rest))
               ELSE FilterLoop(Append(result, tp), Tail(rest))

filterReliableTrackpoints(s) == FilterLoop(<<>>, s)

\* ------------------------------------------------------- queries.ts
\* getActiveWorkout: SELECT ... WHERE finished_at IS NULL ORDER BY started_at DESC
\* LIMIT 1. The set of rows the query may return (SQL leaves the order of equal
\* started_at open); empty when the query returns null.
getActiveWorkout(ws) ==
  LET act == {w \in DOMAIN ws : ws[w].finished_at = NULL}
  IN {w \in act : \A v \in act : ws[v].started_at <= ws[w].started_at}

\* startWorkout: INSERT INTO workouts (started_at) VALUES (now)
startWorkout(ws, id, t) ==
  [w \in DOMAIN ws \cup {id} |->
     IF w = id
     THEN [started_at |-> t, finished_at |-> NULL, distance |-> NULL,
           avg_sec_per_km |-> NULL, avg_bpm |-> NULL]
     ELSE ws[w]]

\* getTrackpoints: SELECT * FROM trackpoints WHERE workout_id = ? ORDER BY created_at
getTrackpoints(tps, wid) ==
  OrderByCreatedAt(SelectSeq(tps, LAMBDA r : r.workout_id = wid))

\* the distance loop of finishWorkout: every consecutive pair of the rows given
RECURSIVE SegmentSum(_)
SegmentSum(s) ==
  IF Len(s) < 2 THEN 0
  ELSE haversineMetres(s[1].lat, s[2].lat) + SegmentSum(Tail(s))

\* SELECT AVG(bpm) FROM pulses WHERE workout_id = ?  (truncated to an integer)
AvgBpm(ps, wid) ==
  LET mine == SelectSeq(ps, LAMBDA r : r.workout_id = wid)
  IN IF mine = <<>> THEN NULL
     ELSE SumSeq([i \in 1..Len(mine) |-> mine[i].bpm]) \div Len(mine)

\* the distance finishWorkout computes: over the rows of getTrackpoints as they are
FinishDistance(tps, wid) == SegmentSum(getTrackpoints(tps, wid))

\* finishWorkout: UPDATE workouts SET finished_at, distance, avg_sec_per_km,
\* avg_bpm WHERE id = ?  (no row with that id: the UPDATE changes nothing)
finishWorkout(ws, tps, ps, wid, t) ==
  LET rows == getTrackpoints(tps, wid)
      distance == FinishDistance(tps, wid)
      avgSecPerKm ==
        IF distance > 0 /\ Len(rows) >= 2
        THEN ((rows[Len(rows)].created_at - rows[1].created_at) * 1000) \div distance
        ELSE NULL
  IN IF wid \notin DOMAIN ws THEN ws
     ELSE [ws EXCEPT ![wid] = [@ EXCEPT !.finished_at = t,
                                        !.distance = distance,
                                        !.avg_sec_per_km = avgSecPerKm,
                                        !.avg_bpm = AvgBpm(ps, wid)]]

\* a connection opened without the pragma: SQLite's default
ForeignKeysOff == FALSE

\* PRAGMA foreign_keys = ON, set on every connection (database.ts)
ForeignKeysOn == TRUE

\* FOREIGN KEY (workout_id) REFERENCES workouts(id): may a child row be inserted
FkInsertOk(ws, wid) == ForeignKeysOn => wid \in DOMAIN ws

\* ... and may the parent row be deleted
FkDeleteOk(tps, ps, wid) ==
  ForeignKeysOn =>
    /\ \A i \in 1..Len(tps) : tps[i].workout_id # wid
    /\ \A i \in 1..Len(ps) : ps[i].workout_id # wid

\* insertTrackpoint / insertPulse: the row appended
TrackpointRow(wid, fix, t) ==
  [workout_id |-> wid, created_at |-> t, lat |-> fix.lat, err |-> fix.err]
PulseRow(wid, bpm, t) == [workout_id |-> wid, created_at |-> t, bpm |-> bpm]

\* deleteWorkout, statement by statement
DeletePulses(ps, wid) == SelectSeq(ps, LAMBDA r : r.workout_id # wid)
DeleteTrackpoints(tps, wid) == SelectSeq(tps, LAMBDA r : r.workout_id # wid)
DeleteWorkoutRow(ws, wid) == [w \in DOMAIN ws \ {wid} |-> ws[w]]


\* ------------------------------------------------------- initial state
IdleTask == [pc |-> "idle", wid |-> NULL, left |-> 0]
EmptyDb == [workouts |-> <<>>, trackpoints |-> <<>>, pulses |-> <<>>]
NoSnapshot == [taken |-> FALSE, db |-> EmptyDb, raced |-> FALSE]
NoSnapshotCall == [pc |-> "idle", db |-> EmptyDb]

\* heartrate.ts as the module is loaded: no device, no subscription, no timer.
\*   state      _connectionState
\*   device     _connectedDevice is set
\*   sub        _hrSubscription is set (measurement notifications are delivered)
\*   monitor    _monitorSubscription is set (onDeviceDisconnected is delivered)
\*   lastBpm    _lastBpm
\*   lastDevice the settings row ble_last_device_id exists
\*   up         the monitor holds a connection to the phone
\*   connects   connectToDevice calls of the user interface awaiting the platform
\*   closing    disconnect() is awaiting cancelConnection
\*   raised     history: a connectToDevice call of the user interface threw,
\*              and no connect has been called or has succeeded and no
\*              disconnect has been handled since
\*   since      history: the latest of "drop" (an unsolicited disconnect was
\*              handled), "connected" (a connect succeeded) and "disconnect"
\*              (disconnect() was called); "none" before any of them
LinkDown ==
  [state |-> "disconnected", device |-> FALSE, sub |-> FALSE, monitor |-> FALSE,
   lastBpm |-> NULL, lastDevice |-> FALSE, up |-> FALSE, connects |-> 0,
   closing |-> FALSE, raised |-> FALSE, since |-> "none"]

\* fixes the location API delivers in the lifecycle specifications
Fixes == {[lat |-> 0, err |-> 5]}
Bpms == {60}

\* fixes it delivers in SpecFinish: an accurate one, one whose accuracy is at the
\* threshold, and an accurate one 30 m away
FinishFixes == {[lat |-> 0, err |-> 5], [lat |-> 10, err |-> 20], [lat |-> 30, err |-> 5]}

\* no pure function is being called; no backup is running and the app's files
\* are as a fresh install leaves them
NoCall == [fn |-> "none"]
NoBackup == [pc |-> "idle"]

InitProgram ==
  /\ workouts = <<>>
  /\ wseq = 0
  /\ trackpoints = <<>>
  /\ pulses = <<>>
  /\ now = 0
  /\ mounted = [i \in Inst |-> FALSE]
  /\ activeWorkout = [i \in Inst |-> NULL]
  /\ hrActiveId = NULL
  /\ locRegs = 0
  /\ calls = EmptyBag
  /\ task = IdleTask
  /\ backupStatus = "idle"
  /\ uploads = 0
  /\ snapshot = NoSnapshot
  /\ snapBase = NoSnapshotCall
  /\ lastEvent = "none"
  /\ link = LinkDown
  /\ retries = EmptyBag
  /\ effectDep = NULL

InitState == InitProgram /\ calc = NoCall /\ bk = NoBackup

Init == lim = Limits /\ InitState
InitWide == lim = WideLimits /\ InitState
InitFinish == lim = FinishLimits /\ InitState
InitLinkEnd == lim = LinkEndLimits /\ InitState

\* ------------------------------------------------------- scheduling
\* `calls` is the bag of async invocations in flight, each [op, inst, pc, wid]:
\* the hook function called, the instance it was called on, the await it is
\* suspended on, and the activeWorkout.id its closure captured.
InFlight == BagToSet(calls)
Spawn(rec) == calls (+) SetToBag({rec})
Return(c) == calls (-) SetToBag({c})
Goto(c, pc) == (calls (-) SetToBag({c})) (+) SetToBag({[c EXCEPT !.pc = pc]})

\* calls of the link awaiting the platform or a timer
LinkBusy ==
  link.connects + BagCardinality(retries) + (IF link.closing THEN 1 ELSE 0)

HasFreeSlot == BagCardinality(calls) + LinkBusy < lim.calls

\* deleteWorkout runs its three statements, and createSnapshot its two steps, in
\* one synchronous block of the main JS thread: while a call is inside one no
\* other main-thread callback runs (the location task, in its own context, and
\* a process kill still may).
MainIdle ==
  /\ \A c \in InFlight : c.pc \notin {"del2", "del3"}
  /\ snapBase.pc = "idle"

\* setActiveWorkout(v) of instance i: React drops the update of an unmounted hook
SetActiveWorkout(i, v) ==
  IF mounted[i] THEN [activeWorkout EXCEPT ![i] = v] ELSE activeWorkout

\* some row carries the current clock value as a timestamp
TimeUsed ==
  \/ \E w \in DOMAIN workouts : now \in {workouts[w].started_at, workouts[w].finished_at}
  \/ \E k \in 1..Len(trackpoints) : trackpoints[k].created_at = now
  \/ \E k \in 1..Len(pulses) : pulses[k].created_at = now

Tick ==
  /\ now < lim.time
  /\ TimeUsed
  /\ now' = now + 1
  /\ UNCHANGED <<store, mounted, activeWorkout, hrActiveId, locRegs, calls, task,
                 backupVars, snapVars, lastEvent, lim, linkVars, pureVars, effectDep>>

\* ------------------------------------------------------- useWorkoutRecording
\* the mount effect (resume): getActiveWorkout, setActiveWorkout, and with a
\* workout: setActiveWorkoutId, startBackgroundLocationTracking() up to its
\* first await (isTaskRegisteredAsync)
\* a mount effect that only reads the active workout into the hook state
ResumeWithoutProducers(i, w) ==
  /\ activeWorkout' = [activeWorkout EXCEPT ![i] = w]
  /\ UNCHANGED <<hrActiveId, calls>>

ResumeEffect(i, w) ==
  /\ activeWorkout' = [activeWorkout EXCEPT ![i] = w]
  /\ hrActiveId' = w
  /\ calls' = Spawn([op |-> "resume", inst |-> i, pc |-> "chk", wid |-> NULL])

\* Navigation (app/_layout.tsx, the router calls of the hook): the home screen
\* is the initial route; the workout screen is opened over it by router.push at
\* the end of start() or by the root layout's router.replace('/workout') when a
\* workout is active at launch; router.replace('/') at the end of finish() and
\* discard() removes the workout screen and mounts a fresh home screen.
Mount(i) ==
  /\ MainIdle
  /\ ~mounted[i]
  /\ IF i = "home" THEN ~mounted["workout"]
     ELSE /\ mounted["home"]
          /\ getActiveWorkout(workouts) # {}
          /\ \A c \in InFlight : c.op # "start"
  /\ mounted' = [mounted EXCEPT ![i] = TRUE]
  /\ IF getActiveWorkout(workouts) = {}
     THEN UNCHANGED <<activeWorkout, hrActiveId, calls>>
     ELSE /\ HasFreeSlot
          /\ \E w \in getActiveWorkout(workouts) : ResumeEffect(i, w)
  /\ lastEvent' = IF lastEvent = "killed" /\ getActiveWorkout(workouts) # {}
              THEN "resumed" ELSE lastEvent
  /\ effectDep' = IF i = "workout" THEN NULL ELSE effectDep
  /\ UNCHANGED <<store, now, locRegs, task, backupVars, snapVars, lim, linkVars, pureVars>>

\* router.replace('/'): every mounted screen of the stack is left and its hook
\* state is gone (the effect cleanup of app/workout.tsx sets _activeWorkoutId to
\* null, which the caller has already done)
NoScreens == [i \in Inst |-> FALSE]
NoWorkoutState == [i \in Inst |-> NULL]

\* a screen that is left takes its effects with it: the dependency the effect
\* of app/workout.tsx ran with is that of a mounted workout screen
EffectOfLeftScreen == effectDep' = IF mounted'["workout"] THEN effectDep ELSE NULL

\* the effect of app/workout.tsx on [activeWorkout?.id], run after a render in
\* which the dependency changed: the cleanup of the run before,
\* hr.setActiveWorkoutId(null), then hr.setActiveWorkoutId(activeWorkout.id)
\* when the hook state holds a workout
WorkoutScreenEffect ==
  /\ MainIdle
  /\ mounted["workout"]
  /\ activeWorkout["workout"] # effectDep
  /\ hrActiveId' = activeWorkout["workout"]
  /\ effectDep' = activeWorkout["workout"]
  /\ UNCHANGED <<store, now, mounted, activeWorkout, locRegs, calls, task,
                 backupVars, snapVars, lastEvent, lim, linkVars, pureVars>>

StartsInFlight ==
  LET c == [op |-> "start", inst |-> "home", pc |-> "perm", wid |-> NULL]
  IN IF c \in InFlight THEN CopiesIn(c, calls) ELSE 0

\* start() up to `await requestLocationPermissions()` (the Start button of the
\* home screen)
StartCall(i) ==
  /\ MainIdle
  /\ i = "home"
  /\ mounted[i]
  /\ ~mounted["workout"]
  /\ HasFreeSlot
  /\ wseq + StartsInFlight < lim.workouts
  /\ calls' = Spawn([op |-> "start", inst |-> i, pc |-> "perm", wid |-> NULL])
  /\ lastEvent' = "none"
  /\ UNCHANGED <<store, now, mounted, activeWorkout, hrActiveId, locRegs, task,
                 backupVars, snapVars, lim, linkVars, pureVars, effectDep>>

\* start() with the permission granted: startWorkout, getActiveWorkout,
\* setActiveWorkout, setActiveWorkoutId and startBackgroundLocationTracking() up
\* to its first await
StartGranted(c) ==
  LET id == wseq + 1
      ws == startWorkout(workouts, id, now)
  IN /\ workouts' = ws
     /\ wseq' = id
     /\ \E w \in getActiveWorkout(ws) :
          activeWorkout' = SetActiveWorkout(c.inst, w)
     /\ hrActiveId' = id
     /\ calls' = Goto(c, "chk")
     /\ UNCHANGED <<trackpoints, pulses>>

\* a start() that goes on whatever requestLocationPermissions() returned
StartUnchecked(c, granted) == StartGranted(c)

\* start() after the permission request resolved: `if (!hasPermission) return`
StartAfterPermission(c, granted) ==
  IF ~granted
  THEN /\ calls' = Return(c)
       /\ UNCHANGED <<store, activeWorkout, hrActiveId>>
  ELSE StartGranted(c)

StartResolved(c, granted) ==
  /\ MainIdle
  /\ c.op = "start"
  /\ c.pc = "perm"
  /\ StartAfterPermission(c, granted)
  /\ lastEvent' = IF granted THEN lastEvent ELSE "denied"
  /\ UNCHANGED <<now, mounted, locRegs, task, backupVars, snapVars, lim, linkVars, pureVars, effectDep>>

StartPermission(c) == \E granted \in BOOLEAN : StartResolved(c, granted)

\* startBackgroundLocationTracking after isTaskRegisteredAsync resolved
LocCheck(c) ==
  /\ MainIdle
  /\ c.pc = "chk"
  /\ calls' = IF locRegs > 0 THEN Return(c) ELSE Goto(c, "reg")
  /\ UNCHANGED <<store, now, mounted, activeWorkout, hrActiveId, locRegs, task,
                 backupVars, snapVars, lastEvent, lim, linkVars, pureVars, effectDep>>

\* Location.startLocationUpdatesAsync(BACKGROUND_LOCATION_TASK) takes effect
LocRegister(c) ==
  /\ MainIdle
  /\ c.pc = "reg"
  /\ locRegs' = locRegs + 1
  /\ calls' = Return(c)
  /\ UNCHANGED <<store, now, mounted, activeWorkout, hrActiveId, task,
                 backupVars, snapVars, lastEvent, lim, linkVars, pureVars, effectDep>>

\* finish() / discard() up to `await stopBackgroundLocationTracking()`; the
\* callback closes over the instance's activeWorkout
StopCall(i, op) ==
  /\ MainIdle
  /\ i = "workout"
  /\ mounted[i]
  /\ activeWorkout[i] # NULL
  /\ HasFreeSlot
  /\ calls' = Spawn([op |-> op, inst |-> i, pc |-> "stopchk", wid |-> activeWorkout[i]])
  /\ lastEvent' = "none"
  /\ UNCHANGED <<store, now, mounted, activeWorkout, hrActiveId, locRegs, task,
                 backupVars, snapVars, lim, linkVars, pureVars, effectDep>>

FinishCall(i) == StopCall(i, "finish")
DiscardCall(i) == StopCall(i, "discard")

\* stopBackgroundLocationTracking after isTaskRegisteredAsync resolved
StopCheck(c) ==
  /\ MainIdle
  /\ c.pc = "stopchk"
  /\ calls' = IF locRegs > 0 THEN Goto(c, "stop") ELSE Goto(c, "run")
  /\ UNCHANGED <<store, now, mounted, activeWorkout, hrActiveId, locRegs, task,
                 backupVars, snapVars, lastEvent, lim, linkVars, pureVars, effectDep>>

\* Location.stopLocationUpdatesAsync(BACKGROUND_LOCATION_TASK) takes effect
StopUpdates(c) ==
  /\ MainIdle
  /\ c.pc = "stop"
  /\ locRegs' = 0
  /\ calls' = Goto(c, "run")
  /\ UNCHANGED <<store, now, mounted, activeWorkout, hrActiveId, task,
                 backupVars, snapVars, lastEvent, lim, linkVars, pureVars, effectDep>>

\* ------------------------------------------------------- backup.ts
\* backupDatabase() up to its first await, which finish() runs synchronously:
\* createSnapshot (failure: return 'failed'), localBackup (failure: logged, the
\* run goes on), kvGet(KV_WEBDAV_URL) (empty: setStatus and return
\* 'not_configured'), else setStatus('in_progress') and the upload request
BackupSync(snapOk, localOk, urlSet) ==
  IF ~snapOk
  THEN UNCHANGED <<backupStatus, uploads>>
  ELSE IF ~urlSet
       THEN /\ backupStatus' = "not_configured"
            /\ UNCHANGED uploads
       ELSE /\ backupStatus' = "in_progress"
            /\ uploads' = uploads + 1

\* backupDatabase() after webdavUpload resolved (ok) or rejected
UploadResolve(ok) ==
  /\ MainIdle
  /\ uploads > 0
  /\ uploads' = uploads - 1
  /\ backupStatus' = IF ok THEN "success" ELSE "failed"
  /\ UNCHANGED <<store, now, mounted, activeWorkout, hrActiveId, locRegs, calls, task,
                 snapVars, lastEvent, lim, linkVars, pureVars, effectDep>>

\* a finish() that awaits the backup before finishWorkout and lets a snapshot
\* failure reject the call
FinishAfterBackup(c, snapOk, localOk, urlSet) ==
  /\ hrActiveId' = NULL
  /\ BackupSync(snapOk, localOk, urlSet)
  /\ calls' = Return(c)
  /\ IF snapOk
     THEN /\ workouts' = finishWorkout(workouts, trackpoints, pulses, c.wid, now)
          /\ activeWorkout' = [i \in Inst |-> NULL]
          /\ mounted' = [i \in Inst |-> FALSE]
     ELSE UNCHANGED <<workouts, activeWorkout, mounted>>

\* ------------------------------------------------------- finish / discard
\* a finish() that leaves the producer's workout id as it is
FinishBodyKeepsId(c, snapOk, localOk, urlSet) ==
  /\ UNCHANGED hrActiveId
  /\ workouts' = finishWorkout(workouts, trackpoints, pulses, c.wid, now)
  /\ activeWorkout' = NoWorkoutState
  /\ mounted' = NoScreens
  /\ BackupSync(snapOk, localOk, urlSet)
  /\ calls' = Return(c)

\* finish() after stopBackgroundLocationTracking: setActiveWorkoutId(null),
\* finishWorkout(activeWorkout.id), setActiveWorkout(null), backupDatabase(),
\* router.replace('/')
FinishBody(c, snapOk, localOk, urlSet) ==
  /\ hrActiveId' = NULL
  /\ workouts' = finishWorkout(workouts, trackpoints, pulses, c.wid, now)
  /\ activeWorkout' = NoWorkoutState
  /\ mounted' = NoScreens
  /\ BackupSync(snapOk, localOk, urlSet)
  /\ calls' = Return(c)

FinishOutcome(c, snapOk, localOk, urlSet) ==
  /\ MainIdle
  /\ c.op = "finish"
  /\ c.pc = "run"
  /\ FinishBody(c, snapOk, localOk, urlSet)
  /\ EffectOfLeftScreen
  /\ UNCHANGED <<wseq, trackpoints, pulses, now, locRegs, task, snapVars, lastEvent, lim, linkVars, pureVars>>

FinishRun(c) ==
  \E snapOk \in BOOLEAN, localOk \in BOOLEAN, urlSet \in BOOLEAN :
    FinishOutcome(c, snapOk, localOk, urlSet)

\* discard() after stopBackgroundLocationTracking: setActiveWorkoutId(null) and
\* the first statement of deleteWorkout, DELETE FROM pulses
DiscardRun(c) ==
  /\ MainIdle
  /\ c.op = "discard"
  /\ c.pc = "run"
  /\ hrActiveId' = NULL
  /\ pulses' = DeletePulses(pulses, c.wid)
  /\ calls' = Goto(c, "del2")
  /\ UNCHANGED <<workouts, wseq, trackpoints, now, mounted, activeWorkout, locRegs,
                 task, backupVars, snapVars, lastEvent, lim, linkVars, pureVars, effectDep>>

\* the second statement of deleteWorkout, DELETE FROM trackpoints
DiscardTrackpoints(c) ==
  /\ c.pc = "del2"
  /\ trackpoints' = DeleteTrackpoints(trackpoints, c.wid)
  /\ calls' = Goto(c, "del3")
  /\ UNCHANGED <<workouts, wseq, pulses, now, mounted, activeWorkout, hrActiveId,
                 locRegs, task, backupVars, snapVars, lastEvent, lim, linkVars, pureVars, effectDep>>

\* the third statement, DELETE FROM workouts, then setActiveWorkout(null) and
\* router.replace('/'); a
\* foreign-key failure throws out of deleteWorkout and discard() rejects there
DiscardWorkout(c) ==
  /\ c.pc = "del3"
  /\ calls' = Return(c)
  /\ IF FkDeleteOk(trackpoints, pulses, c.wid)
     THEN /\ workouts' = DeleteWorkoutRow(workouts, c.wid)
          /\ activeWorkout' = NoWorkoutState
          /\ mounted' = NoScreens
     ELSE UNCHANGED <<workouts, activeWorkout, mounted>>
  /\ EffectOfLeftScreen
  /\ UNCHANGED <<wseq, trackpoints, pulses, now, hrActiveId, locRegs, task,
                 backupVars, snapVars, lastEvent, lim, linkVars, pureVars>>

\* rows the run may still insert into trackpoints and pulses
SamplesLeft == lim.samples - (Len(trackpoints) + Len(pulses) + task.left)

\* a handler without the catch: the failure leaves the handler as an exception
TaskRethrow == [pc |-> "raised", wid |-> NULL, left |-> 0]

\* the handler's catch: the failure is logged and the handler returns
TaskCatch == IdleTask

\* ------------------------------------------------------- location.ts task
\* BACKGROUND_LOCATION_TASK is handed a batch of n fixes: openFreshDatabase and
\* the one getActiveWorkout(db) of the handler
TaskDeliver(n) ==
  /\ task.pc = "idle"
  /\ locRegs > 0
  /\ n <= SamplesLeft
  /\ IF getActiveWorkout(workouts) = {}
     THEN UNCHANGED task
     ELSE \E w \in getActiveWorkout(workouts) :
            task' = [pc |-> "ins", wid |-> w, left |-> n]
  /\ UNCHANGED <<store, now, mounted, activeWorkout, hrActiveId, locRegs, calls,
                 backupVars, snapVars, lastEvent, lim, linkVars, pureVars, effectDep>>

\* one pass of the handler's loop: insertTrackpoint(activeWorkout.id, ...); an
\* insert that throws leaves the loop through the handler's catch
TaskInsert(fix) ==
  /\ task.pc = "ins"
  /\ IF FkInsertOk(workouts, task.wid)
     THEN /\ trackpoints' = Append(trackpoints, TrackpointRow(task.wid, fix, now))
          /\ task' = IF task.left = 1 THEN IdleTask
                     ELSE [task EXCEPT !.left = task.left - 1]
     ELSE /\ task' = TaskCatch
          /\ UNCHANGED trackpoints
  /\ UNCHANGED <<workouts, wseq, pulses, now, mounted, activeWorkout, hrActiveId,
                 locRegs, calls, backupVars, snapVars, lastEvent, lim, linkVars, pureVars, effectDep>>

\* a store call of the handler throws for another reason (the database is
\* locked or cannot be opened, the disk is full): the same catch; lastEvent
\* records "swallowed" when it holds nothing else
TaskStoreFails ==
  /\ task.pc = "ins"
  /\ task' = TaskCatch
  /\ lastEvent' = IF lastEvent = "none" THEN "swallowed" ELSE lastEvent
  /\ UNCHANGED <<store, now, mounted, activeWorkout, hrActiveId, locRegs, calls,
                 backupVars, snapVars, lim, linkVars, pureVars, effectDep>>

\* the callback that notifies the listeners and never writes
HrCallbackNotifyOnly(bpm) ==
  /\ link' = [link EXCEPT !.lastBpm = bpm]
  /\ UNCHANGED <<store, now, mounted, activeWorkout, hrActiveId, locRegs, calls,
                 task, backupVars, snapVars, lastEvent, lim, retries, pureVars, effectDep>>

\* ------------------------------------------------------- heartrate.ts
\* the monitor callback of subscribeToHeartRate for a frame that parseHeartRate
\* decodes to bpm: notifyBpm(bpm), then insertPulse(_activeWorkoutId, bpm) when
\* _activeWorkoutId is set; an insert that throws is caught and logged
HrCallback(bpm) ==
  /\ link' = [link EXCEPT !.lastBpm = bpm]
  /\ pulses' = IF hrActiveId # NULL /\ FkInsertOk(workouts, hrActiveId)
               THEN Append(pulses, PulseRow(hrActiveId, bpm, now))
               ELSE pulses
  /\ UNCHANGED <<workouts, wseq, trackpoints, now, mounted, activeWorkout, hrActiveId,
                 locRegs, calls, task, backupVars, snapVars, lastEvent, lim, retries, pureVars, effectDep>>

\* a frame arrives while a workout is marked active (the lifecycle
\* specifications do not follow the link: the monitor is taken to be sending)
HrFrame(bpm) ==
  /\ MainIdle
  /\ hrActiveId # NULL
  /\ SamplesLeft > 0
  /\ HrCallback(bpm)

\* ------------------------------------------------------- heartrate.ts: the link
\* `retries` is the bag of tryReconnect closures that still have a timer pending
\* or a connect in flight, each [attempts, pc, ref]: the closure's own counter,
\* "wait" (its timer is pending) or "try" (its connectToDevice is awaiting the
\* platform), and whether _reconnectTimer holds the timer it set last.
maxAttempts == 30

\* connectToDevice after both awaits resolved: the device is kept, the state is
\* 'connected', the device id is saved, the measurement and the disconnect
\* monitors are subscribed
connectSucceeded(l) ==
  [l EXCEPT !.device = TRUE, !.state = "connected", !.lastDevice = TRUE,
            !.sub = TRUE, !.monitor = TRUE, !.up = TRUE, !.since = "connected",
            !.raised = FALSE]

\* a catch that rethrows without notifying the state
connectFailedUnnotified(l) == l

\* connectToDevice's catch: 'disconnected', and the error is thrown again
connectFailed(l) == [l EXCEPT !.state = "disconnected"]

\* _reconnectTimer = null
UnrefAll(rs) ==
  LET tgt == {[r EXCEPT !.ref = FALSE] : r \in BagToSet(rs)}
  IN IF tgt = {} THEN EmptyBag
     ELSE [t \in tgt |-> CopiesIn(t, rs) + CopiesIn([t EXCEPT !.ref = TRUE], rs)]

\* the closures whose pending timer _reconnectTimer holds
Armed(rs) ==
  LET held == {r \in BagToSet(rs) : r.ref /\ r.pc = "wait"}
  IN IF held = {} THEN EmptyBag ELSE [r \in held |-> rs[r]]

\* cancelReconnect: clearTimeout(_reconnectTimer) stops a pending timer and does
\* nothing to one that has fired
cancelReconnect(rs) == UnrefAll(rs (-) Armed(rs))

\* scheduleReconnect: a new closure with attempts = 0 and a 10 s timer
scheduleReconnect(rs) ==
  cancelReconnect(rs) (+) SetToBag({[attempts |-> 0, pc |-> "wait", ref |-> TRUE]})

\* the guard with the comparison off by one
GaveUpLate(attempts) == attempts > maxAttempts

\* tryReconnect's second guard
GaveUp(attempts) == attempts >= maxAttempts

\* connectToDevice is called from the user interface (useHeartRate.connect, or
\* reconnectToLastDevice at launch): 'connecting', then it awaits the platform
HrConnectCall ==
  /\ MainIdle
  /\ ~link.closing
  /\ HasFreeSlot
  /\ link' = [link EXCEPT !.state = "connecting", !.connects = @ + 1,
                          !.raised = FALSE]
  /\ UNCHANGED <<store, now, mounted, activeWorkout, hrActiveId, locRegs, calls,
                 task, backupVars, snapVars, lastEvent, lim, retries, pureVars, effectDep>>

\* that call after its awaits: connected, or the catch block and the throw
HrConnectResolve(ok) ==
  /\ MainIdle
  /\ link.connects > 0
  /\ link' = IF ok
             THEN [connectSucceeded(link) EXCEPT !.connects = @ - 1]
             ELSE [connectFailed(link) EXCEPT !.connects = @ - 1, !.raised = TRUE]
  /\ UNCHANGED <<store, now, mounted, activeWorkout, hrActiveId, locRegs, calls,
                 task, backupVars, snapVars, lastEvent, lim, retries, pureVars, effectDep>>

\* what the onDeviceDisconnected callback does to the module state
deviceLost(l) ==
  [l EXCEPT !.device = FALSE, !.sub = FALSE, !.lastBpm = NULL,
            !.state = "disconnected", !.up = FALSE, !.since = "drop",
            !.raised = FALSE]

\* the callback that never schedules a reconnection
DropWithoutRetry ==
  /\ link' = deviceLost(link)
  /\ UNCHANGED retries

\* the onDeviceDisconnected callback registered by connectToDevice
DropEffect ==
  /\ link' = deviceLost(link)
  /\ retries' = IF hrActiveId # NULL THEN scheduleReconnect(retries) ELSE retries

\* the monitor drops the connection
HrDeviceDisconnected ==
  /\ MainIdle
  /\ link.monitor /\ link.up
  /\ hrActiveId # NULL
       => BagCardinality(calls) + BagCardinality(cancelReconnect(retries))
            + link.connects + (IF link.closing THEN 1 ELSE 0) < lim.calls
  /\ DropEffect
  /\ UNCHANGED <<store, now, mounted, activeWorkout, hrActiveId, locRegs, calls,
                 task, backupVars, snapVars, lastEvent, lim, pureVars, effectDep>>

\* a retry timer fires: tryReconnect returns when the state is 'connected' or
\* the closure has given up, else it counts the attempt and calls connectToDevice
HrTimerFire(r) ==
  /\ MainIdle
  /\ r.pc = "wait"
  /\ IF link.state = "connected" \/ GaveUp(r.attempts)
     THEN /\ retries' = retries (-) SetToBag({r})
          /\ UNCHANGED link
     ELSE /\ retries' = (retries (-) SetToBag({r}))
                          (+) SetToBag({[r EXCEPT !.attempts = @ + 1, !.pc = "try"]})
          /\ link' = [link EXCEPT !.state = "connecting"]
  /\ UNCHANGED <<store, now, mounted, activeWorkout, hrActiveId, locRegs, calls,
                 task, backupVars, snapVars, lastEvent, lim, pureVars, effectDep>>

\* tryReconnect after its connectToDevice: done, or the catch arms the next timer
HrRetryResolve(r, ok) ==
  /\ MainIdle
  /\ r.pc = "try"
  /\ IF ok
     THEN /\ link' = connectSucceeded(link)
          /\ retries' = retries (-) SetToBag({r})
     ELSE /\ link' = connectFailed(link)
          /\ retries' = UnrefAll(retries (-) SetToBag({r}))
                          (+) SetToBag({[r EXCEPT !.pc = "wait", !.ref = TRUE]})
  /\ UNCHANGED <<store, now, mounted, activeWorkout, hrActiveId, locRegs, calls,
                 task, backupVars, snapVars, lastEvent, lim, pureVars, effectDep>>

\* a disconnect() that also stops the location updates
HrDisconnectStopsTracking ==
  /\ MainIdle
  /\ ~link.closing
  /\ retries' = cancelReconnect(retries)
  /\ link' = [link EXCEPT !.sub = FALSE, !.monitor = FALSE, !.lastBpm = NULL,
                          !.since = "disconnect", !.raised = FALSE,
                          !.closing = link.device,
                          !.state = IF link.device THEN @ ELSE "disconnected"]
  /\ locRegs' = 0
  /\ UNCHANGED <<store, now, mounted, activeWorkout, hrActiveId, calls,
                 task, backupVars, snapVars, lastEvent, lim, pureVars, effectDep>>

\* disconnect() up to its await: the timer is cancelled, both subscriptions are
\* removed; with no device kept it ends at once in 'disconnected'
HrDisconnectCall ==
  /\ MainIdle
  /\ ~link.closing
  /\ retries' = cancelReconnect(retries)
  /\ link' = [link EXCEPT !.sub = FALSE, !.monitor = FALSE, !.lastBpm = NULL,
                          !.since = "disconnect", !.raised = FALSE,
                          !.closing = link.device,
                          !.state = IF link.device THEN @ ELSE "disconnected"]
  /\ UNCHANGED <<store, now, mounted, activeWorkout, hrActiveId, locRegs, calls,
                 task, backupVars, snapVars, lastEvent, lim, pureVars, effectDep>>

\* disconnect() after cancelConnection settled
HrDisconnectDone ==
  /\ MainIdle
  /\ link.closing
  /\ link' = [link EXCEPT !.device = FALSE, !.up = FALSE, !.closing = FALSE,
                          !.state = "disconnected"]
  /\ UNCHANGED <<store, now, mounted, activeWorkout, hrActiveId, locRegs, calls,
                 task, backupVars, snapVars, lastEvent, lim, retries, pureVars, effectDep>>

\* a measurement notification of the subscribed, connected monitor
HrNotification(bpm) ==
  /\ MainIdle
  /\ link.sub /\ link.up
  /\ hrActiveId # NULL => SamplesLeft > 0
  /\ HrCallback(bpm)

\* ------------------------------------------------------- snapshot
\* what a connection reads: every committed row
Content == [workouts |-> workouts, trackpoints |-> trackpoints, pulses |-> pulses]

\* a snapshot assembled from separate reads: the trackpoints as they were when
\* the call began, the other tables as they are when it ends
copyTableByTable == [Content EXCEPT !.trackpoints = snapBase.db.trackpoints]

\* createSnapshot: VACUUM INTO writes what its one read transaction sees
createSnapshot == Content

\* createSnapshot is entered (backupWithLogs from the settings screen, opened
\* from the home screen): the snapshot file of that name, if any, is deleted
SnapshotCall ==
  /\ MainIdle
  /\ mounted["home"]
  /\ snapBase' = [pc |-> "begun", db |-> Content]
  /\ snapshot' = NoSnapshot
  /\ UNCHANGED <<store, now, mounted, activeWorkout, hrActiveId, locRegs, calls,
                 task, backupVars, lastEvent, lim, linkVars, pureVars, effectDep>>

\* VACUUM INTO runs (ok) or throws
SnapshotVacuum(ok) ==
  /\ snapBase.pc = "begun"
  /\ snapBase' = NoSnapshotCall
  /\ snapshot' = IF ok THEN [taken |-> TRUE, db |-> createSnapshot,
                             raced |-> Content # snapBase.db]
                ELSE snapshot
  /\ UNCHANGED <<store, now, mounted, activeWorkout, hrActiveId, locRegs, calls,
                 task, backupVars, lastEvent, lim, linkVars, pureVars, effectDep>>

\* ------------------------------------------------------- process termination
\* the process dies: every JS context and all module state are lost, the store
\* stays; the platform keeps the task registration or drops it
Kill ==
  /\ mounted' = NoScreens
  /\ activeWorkout' = NoWorkoutState
  /\ hrActiveId' = NULL
  /\ calls' = EmptyBag
  /\ task' = IdleTask
  /\ backupStatus' = "idle"
  /\ uploads' = 0
  /\ locRegs' \in {locRegs, 0}
  /\ snapBase' = NoSnapshotCall
  /\ lastEvent' = IF getActiveWorkout(workouts) # {} THEN "killed" ELSE "none"
  /\ link' = [LinkDown EXCEPT !.lastDevice = link.lastDevice]
  /\ retries' = EmptyBag
  /\ effectDep' = NULL
  /\ UNCHANGED <<store, now, snapshot, lim, pureVars>>

\* every step but the clock's
NextLifecycle ==
  \/ \E i \in Inst : Mount(i)
  \/ \E i \in Inst : StartCall(i)
  \/ \E c \in InFlight : StartPermission(c)
  \/ \E c \in InFlight : LocCheck(c)
  \/ \E c \in InFlight : LocRegister(c)
  \/ \E i \in Inst : FinishCall(i)
  \/ \E i \in Inst : DiscardCall(i)
  \/ \E c \in InFlight : StopCheck(c)
  \/ \E c \in InFlight : StopUpdates(c)
  \/ \E c \in InFlight : FinishRun(c)
  \/ \E c \in InFlight : DiscardRun(c)
  \/ \E c \in InFlight : DiscardTrackpoints(c)
  \/ \E c \in InFlight : DiscardWorkout(c)
  \/ \E ok \in BOOLEAN : UploadResolve(ok)
  \/ \E n \in 1..lim.samples : TaskDeliver(n)
  \/ \E fix \in Fixes : TaskInsert(fix)
  \/ \E bpm \in Bpms : HrFrame(bpm)
  \/ Kill

Next == Tick \/ NextLifecycle

Spec == Init /\ [][Next]_vars
SpecWide == InitWide /\ [][Next]_vars

\* the lifecycle within one reading of the clock
SpecLifecycle == Init /\ [][NextLifecycle]_vars

\* the screens, the calls of the hook and the heart-rate producer: who sets the
\* producer's workout id, and the pulses stored under it
NextScreen ==
  \/ \E i \in Inst : Mount(i)
  \/ WorkoutScreenEffect
  \/ \E i \in Inst : StartCall(i)
  \/ \E c \in InFlight : StartPermission(c)
  \/ \E c \in InFlight : LocCheck(c)
  \/ \E c \in InFlight : LocRegister(c)
  \/ \E i \in Inst : FinishCall(i)
  \/ \E i \in Inst : DiscardCall(i)
  \/ \E c \in InFlight : StopCheck(c)
  \/ \E c \in InFlight : StopUpdates(c)
  \/ \E c \in InFlight : FinishRun(c)
  \/ \E c \in InFlight : DiscardRun(c)
  \/ \E c \in InFlight : DiscardTrackpoints(c)
  \/ \E c \in InFlight : DiscardWorkout(c)
  \/ \E bpm \in Bpms : HrFrame(bpm)
  \/ Kill

SpecScreen == Init /\ [][NextScreen]_vars

\* the store under its writers and the snapshot: start, the two producers,
\* discard, process termination and createSnapshot
NextSnap ==
  \/ \E i \in Inst : Mount(i)
  \/ \E i \in Inst : StartCall(i)
  \/ \E c \in InFlight : StartPermission(c)
  \/ \E c \in InFlight : LocCheck(c)
  \/ \E c \in InFlight : LocRegister(c)
  \/ \E i \in Inst : DiscardCall(i)
  \/ \E c \in InFlight : StopCheck(c)
  \/ \E c \in InFlight : StopUpdates(c)
  \/ \E c \in InFlight : DiscardRun(c)
  \/ \E c \in InFlight : DiscardTrackpoints(c)
  \/ \E c \in InFlight : DiscardWorkout(c)
  \/ \E n \in 1..lim.samples : TaskDeliver(n)
  \/ \E fix \in Fixes : TaskInsert(fix)
  \/ \E bpm \in Bpms : HrFrame(bpm)
  \/ SnapshotCall
  \/ \E ok \in BOOLEAN : SnapshotVacuum(ok)
  \/ Kill

SpecSnap == Init /\ [][NextSnap]_vars

\* one workout from start to finish, with fixes the reliability filter rejects
NextFinish ==
  \/ Tick
  \/ \E i \in Inst : Mount(i)
  \/ \E i \in Inst : StartCall(i)
  \/ \E c \in InFlight : StartPermission(c)
  \/ \E c \in InFlight : LocCheck(c)
  \/ \E c \in InFlight : LocRegister(c)
  \/ \E i \in Inst : FinishCall(i)
  \/ \E c \in InFlight : StopCheck(c)
  \/ \E c \in InFlight : StopUpdates(c)
  \/ \E c \in InFlight : FinishRun(c)
  \/ \E ok \in BOOLEAN : UploadResolve(ok)
  \/ \E n \in 1..lim.samples : TaskDeliver(n)
  \/ \E fix \in FinishFixes : TaskInsert(fix)

SpecFinish == InitFinish /\ [][NextFinish]_vars

\* the link with the start of a workout: what the heart-rate service does before
\* and while a workout is marked active
NextLink ==
  \/ \E i \in Inst : Mount(i)
  \/ \E i \in Inst : StartCall(i)
  \/ \E c \in InFlight : StartPermission(c)
  \/ \E c \in InFlight : LocCheck(c)
  \/ \E c \in InFlight : LocRegister(c)
  \/ HrConnectCall
  \/ \E ok \in BOOLEAN : HrConnectResolve(ok)
  \/ HrDeviceDisconnected
  \/ \E r \in BagToSet(retries) : HrTimerFire(r)
  \/ \E r \in BagToSet(retries), ok \in BOOLEAN : HrRetryResolve(r, ok)
  \/ HrDisconnectCall
  \/ HrDisconnectDone
  \/ \E bpm \in Bpms : HrNotification(bpm)

SpecLink == Init /\ [][NextLink]_vars

\* the link with the whole lifecycle of a workout but the positional producer's
\* deliveries, with room for a retry schedule beside a call of the hook
NextLinkEnd ==
  \/ NextLink
  \/ \E i \in Inst : FinishCall(i)
  \/ \E i \in Inst : DiscardCall(i)
  \/ \E c \in InFlight : StopCheck(c)
  \/ \E c \in InFlight : StopUpdates(c)
  \/ \E c \in InFlight : FinishRun(c)
  \/ \E c \in InFlight : DiscardRun(c)
  \/ \E c \in InFlight : DiscardTrackpoints(c)
  \/ \E c \in InFlight : DiscardWorkout(c)
  \/ \E ok \in BOOLEAN : UploadResolve(ok)

SpecLinkEnd == InitLinkEnd /\ [][NextLinkEnd]_vars

\* a workout from start to finish with the location task and a store that can
\* fail under it, with room for two overlapping calls of the hook
NextTask ==
  \/ \E i \in Inst : Mount(i)
  \/ \E i \in Inst : StartCall(i)
  \/ \E c \in InFlight : StartPermission(c)
  \/ \E c \in InFlight : LocCheck(c)
  \/ \E c \in InFlight : LocRegister(c)
  \/ \E i \in Inst : FinishCall(i)
  \/ \E c \in InFlight : StopCheck(c)
  \/ \E c \in InFlight : StopUpdates(c)
  \/ \E c \in InFlight : FinishRun(c)
  \/ \E n \in 1..lim.samples : TaskDeliver(n)
  \/ \E fix \in Fixes : TaskInsert(fix)
  \/ TaskStoreFails

SpecTask == InitLinkEnd /\ [][NextTask]_vars

\* an active workout under the clock and the location task, with room for a
\* batch of two fixes
NextOrder ==
  \/ Tick
  \/ \E i \in Inst : Mount(i)
  \/ \E i \in Inst : StartCall(i)
  \/ \E c \in InFlight : StartPermission(c)
  \/ \E c \in InFlight : LocCheck(c)
  \/ \E c \in InFlight : LocRegister(c)
  \/ \E n \in 1..lim.samples : TaskDeliver(n)
  \/ \E fix \in FinishFixes : TaskInsert(fix)

SpecOrder == InitFinish /\ [][NextOrder]_vars

\* the link beside the location task while a workout is started
NextLinkTask ==
  \/ \E i \in Inst : Mount(i)
  \/ \E i \in Inst : StartCall(i)
  \/ \E c \in InFlight : StartPermission(c)
  \/ \E c \in InFlight : LocCheck(c)
  \/ \E c \in InFlight : LocRegister(c)
  \/ HrConnectCall
  \/ \E ok \in BOOLEAN : HrConnectResolve(ok)
  \/ HrDeviceDisconnected
  \/ \E r \in BagToSet(retries) : HrTimerFire(r)
  \/ \E r \in BagToSet(retries), ok \in BOOLEAN : HrRetryResolve(r, ok)
  \/ HrDisconnectCall
  \/ HrDisconnectDone
  \/ \E n \in 1..lim.samples : TaskDeliver(n)
  \/ \E fix \in Fixes : TaskInsert(fix)

SpecLinkTask == Init /\ [][NextLinkTask]_vars

\* ------------------------------------------------------- pure functions
\* A call of a pure function: `calc` holds the argument the caller passed and,
\* once the call has returned, the value it returned.
PureCall(fn, arg) == [fn |-> fn, arg |-> arg, done |-> FALSE, ret |-> <<>>]
Returned(v) == [calc EXCEPT !.done = TRUE, !.ret = v]
OnlyCalc == UNCHANGED <<lim, store, now, mounted, activeWorkout, hrActiveId, locRegs,
                        calls, task, backupVars, snapVars, lastEvent, linkVars, bk, effectDep>>

\* The rows getTrackpoints hands to the filter: any positions, accuracies absent,
\* below and at the threshold, in created_at order (ORDER BY created_at ASC),
\* equal timestamps included; FilterInputs(n) are the arguments of up to n rows
SampleLats == {0, 15, 30}
SampleErrs == {NULL, 5, GPS_ERR_THRESHOLD}
SampleTimes == {0, 1, 2}
Samples ==
  {TrackpointRow(1, [lat |-> la, err |-> e], t) :
     la \in SampleLats, e \in SampleErrs, t \in SampleTimes}

InCreatedAtOrder(s) ==
  \A i \in 1..(Len(s) - 1) : s[i].created_at <= s[i + 1].created_at

SeqsUpTo(S, n) == UNION {[1..k -> S] : k \in 0..n}

FilterInputs(n) == {s \in SeqsUpTo(Samples, n) : InCreatedAtOrder(s)}

InitFilter ==
  /\ lim = Limits
  /\ InitProgram
  /\ bk = NoBackup
  /\ calc \in {PureCall("filter", s) : s \in FilterInputs(MaxLen)}

\* const reliable = filterReliableTrackpoints(trackpoints)
ApplyFilter ==
  /\ calc.fn = "filter"
  /\ ~calc.done
  /\ calc' = Returned(filterReliableTrackpoints(calc.arg))
  /\ OnlyCalc

SpecFilter == InitFilter /\ [][ApplyFilter]_vars

\* ------------------------------------------------------- pace.ts
\* What paceOverWindow returns: null, or the number (timeSeconds /
\* accumulatedDistance) * 1000, kept as the exact fraction num / den
NoPace == [some |-> FALSE, num |-> 0, den |-> 1]
Pace(timeSeconds, accumulatedDistance) ==
  [some |-> TRUE, num |-> timeSeconds * 1000, den |-> accumulatedDistance]

\* the loop with the window test written accumulatedDistance > windowMetres
RECURSIVE PaceLoopStrict(_, _, _, _)
PaceLoopStrict(tps, windowMetres, i, acc) ==
  IF i < 1 THEN NoPace
  ELSE LET accumulatedDistance == acc + haversineMetres(tps[i].lat, tps[i + 1].lat)
           timeSeconds == tps[Len(tps)].created_at - tps[i].created_at
       IN IF accumulatedDistance > windowMetres
          THEN IF accumulatedDistance <= 0 \/ timeSeconds <= 0
               THEN NoPace
               ELSE Pace(timeSeconds, accumulatedDistance)
          ELSE PaceLoopStrict(tps, windowMetres, i - 1, accumulatedDistance)

\* the loop of paceOverWindow, walking backwards from the last but one row
\* (index i, 1-based), with the distance accumulated so far
RECURSIVE PaceLoop(_, _, _, _)
PaceLoop(tps, windowMetres, i, acc) ==
  IF i < 1 THEN NoPace
  ELSE LET accumulatedDistance == acc + haversineMetres(tps[i].lat, tps[i + 1].lat)
           timeSeconds == tps[Len(tps)].created_at - tps[i].created_at
       IN IF accumulatedDistance >= windowMetres
          THEN IF accumulatedDistance <= 0 \/ timeSeconds <= 0
               THEN NoPace
               ELSE Pace(timeSeconds, accumulatedDistance)
          ELSE PaceLoop(tps, windowMetres, i - 1, accumulatedDistance)

paceOverWindow(tps, windowMetres) ==
  IF Len(tps) < 2 THEN NoPace
  ELSE PaceLoop(tps, windowMetres, Len(tps) - 1, 0)

\* The rows the statistics hook passes: positions 50 m apart, timestamps 10 s
\* apart or equal, in created_at order; the windows are the two the screens use
PaceLats == {0, 50, 100}
PaceTimes == {0, 10, 20}
PaceSamples ==
  {TrackpointRow(1, [lat |-> la, err |-> 5], t) : la \in PaceLats, t \in PaceTimes}
PaceWindows == {100, 1000}
PaceInputs(n) ==
  {[trackpoints |-> s, windowMetres |-> w] :
     s \in {q \in SeqsUpTo(PaceSamples, n) : InCreatedAtOrder(q)},
     w \in PaceWindows}

InitPace ==
  /\ lim = Limits
  /\ InitProgram
  /\ bk = NoBackup
  /\ calc \in {PureCall("pace", a) : a \in PaceInputs(MaxLen)}

\* const pace100m = paceOverWindow(trackpoints, 100), and the same for 1000
ApplyPace ==
  /\ calc.fn = "pace"
  /\ ~calc.done
  /\ calc' = Returned(paceOverWindow(calc.arg.trackpoints, calc.arg.windowMetres))
  /\ OnlyCalc

SpecPace == InitPace /\ [][ApplyPace]_vars

\* ------------------------------------------------------- splits.ts
\* averageBpmInWindow: the pulses from the cursor on with startMs <= t <= endMs,
\* stopping at the first one later than endMs. The result sum / count is kept as
\* the pair; count = 0 stands for null.
RECURSIVE BpmWindowLoop(_, _, _, _, _)
BpmWindowLoop(ps, i, startMs, endMs, acc) ==
  IF i > Len(ps) \/ ps[i].created_at > endMs THEN acc
  ELSE IF ps[i].created_at >= startMs
       THEN BpmWindowLoop(ps, i + 1, startMs, endMs,
                          [sum |-> acc.sum + ps[i].bpm, count |-> acc.count + 1])
       ELSE BpmWindowLoop(ps, i + 1, startMs, endMs, acc)

averageBpmInWindow(ps, startIdx, startMs, endMs) ==
  BpmWindowLoop(ps, startIdx, startMs, endMs, [sum |-> 0, count |-> 0])

\* the cursor stopping at the first pulse not earlier than endMs
RECURSIVE advancePulseIdxStrict(_, _, _)
advancePulseIdxStrict(ps, currentIdx, endMs) ==
  IF currentIdx <= Len(ps) /\ ps[currentIdx].created_at < endMs
  THEN advancePulseIdxStrict(ps, currentIdx + 1, endMs)
  ELSE currentIdx

\* advancePulseIdx: the cursor moved past every pulse up to endMs
RECURSIVE advancePulseIdx(_, _, _)
advancePulseIdx(ps, currentIdx, endMs) ==
  IF currentIdx <= Len(ps) /\ ps[currentIdx].created_at <= endMs
  THEN advancePulseIdx(ps, currentIdx + 1, endMs)
  ELSE currentIdx

\* the locals of computeKmSplits before its loop; `windows` is history, the
\* arguments of each call of averageBpmInWindow
SplitsStart(tps) ==
  [splits |-> <<>>, cumulativeDistance |-> 0, splitStartTime |-> tps[1].created_at,
   nextKmBoundary |-> 1000, pulseIdx |-> 1, windows |-> <<>>]

\* the body of the loop for row i, on the locals st
CloseSplit(tps, ps, i, st, cumulativeDistance) ==
  LET splitEndTime == tps[i].created_at
      seconds == splitEndTime - st.splitStartTime
      avgBpm == averageBpmInWindow(ps, st.pulseIdx, st.splitStartTime, splitEndTime)
  IN [splits |-> Append(st.splits, [km |-> Len(st.splits) + 1, seconds |-> seconds,
                                    avgBpm |-> avgBpm]),
      cumulativeDistance |-> cumulativeDistance,
      splitStartTime |-> splitEndTime,
      nextKmBoundary |-> st.nextKmBoundary + 1000,
      pulseIdx |-> advancePulseIdx(ps, st.pulseIdx, splitEndTime),
      windows |-> Append(st.windows, [startIdx |-> st.pulseIdx,
                                      startMs |-> st.splitStartTime,
                                      endMs |-> splitEndTime])]

\* the loop of computeKmSplits from row i on (1-based; the code starts at its
\* second row)
RECURSIVE SplitsLoop(_, _, _, _)
SplitsLoop(tps, ps, i, st) ==
  IF i > Len(tps) THEN st
  ELSE LET cumulativeDistance ==
             st.cumulativeDistance + haversineMetres(tps[i - 1].lat, tps[i].lat)
       IN IF cumulativeDistance >= st.nextKmBoundary
          THEN SplitsLoop(tps, ps, i + 1, CloseSplit(tps, ps, i, st, cumulativeDistance))
          ELSE SplitsLoop(tps, ps, i + 1,
                          [st EXCEPT !.cumulativeDistance = cumulativeDistance])

\* computeKmSplits of src/utils/splits.ts: completed kilometres only
computeKmSplits(tps, ps) ==
  IF Len(tps) < 2 THEN <<>>
  ELSE SplitsLoop(tps, ps, 2, SplitsStart(tps)).splits

\* The arguments the statistics hook passes: rows the filter lets through (each
\* is a result of the filter), half a kilometre to two kilometres apart and 200 s
\* apart or equal in time, and the workout's pulses in created_at order
SplitLats == {0, 500, 1000, 2000}
SplitTimes == {0, 200, 400}
SplitSamples ==
  {TrackpointRow(1, [lat |-> la, err |-> 5], t) : la \in SplitLats, t \in SplitTimes}
SplitPulses == {PulseRow(1, b, t) : b \in {60, 120}, t \in SplitTimes}
SplitInputs(n) ==
  {[trackpoints |-> s, pulses |-> p] :
     s \in {q \in SeqsUpTo(SplitSamples, n) :
              InCreatedAtOrder(q) /\ filterReliableTrackpoints(q) = q},
     p \in {q \in SeqsUpTo(SplitPulses, n - 1) : InCreatedAtOrder(q)}}

InitSplits ==
  /\ lim = Limits
  /\ InitProgram
  /\ bk = NoBackup
  /\ calc \in {PureCall("splits", a) : a \in SplitInputs(MaxLen)}

\* const splits = computeKmSplits(trackpoints, pulses)
ApplySplits ==
  /\ calc.fn = "splits"
  /\ ~calc.done
  /\ calc' = Returned(computeKmSplits(calc.arg.trackpoints, calc.arg.pulses))
  /\ OnlyCalc

SpecSplits == InitSplits /\ [][ApplySplits]_vars

\* the final partial km with the test of the last sample's time left out
PartialSplitUntimed(tps, ps, st) ==
  LET lastTime == tps[Len(tps)].created_at
      seconds == lastTime - st.splitStartTime
      avgBpm == averageBpmInWindow(ps, st.pulseIdx, st.splitStartTime, lastTime)
      partialDist == st.cumulativeDistance - (Len(st.splits) * 1000)
  IN IF partialDist > 50
     THEN Append(st.splits, [km |-> Len(st.splits) + 1, seconds |-> seconds,
                             avgBpm |-> avgBpm])
     ELSE st.splits

\* the variant of computeKmSplits that keeps the final partial km: after the
\* loop, on its locals st, `if (lastTime > splitStartTime)` and
\* `if (partialDist > 50)` push one more split
PartialSplit(tps, ps, st) ==
  LET lastTime == tps[Len(tps)].created_at
      seconds == lastTime - st.splitStartTime
      avgBpm == averageBpmInWindow(ps, st.pulseIdx, st.splitStartTime, lastTime)
      partialDist == st.cumulativeDistance - (Len(st.splits) * 1000)
  IN IF lastTime > st.splitStartTime /\ partialDist > 50
     THEN Append(st.splits, [km |-> Len(st.splits) + 1, seconds |-> seconds,
                             avgBpm |-> avgBpm])
     ELSE st.splits

computeKmSplitsWithPartial(tps, ps) ==
  IF Len(tps) < 2 THEN <<>>
  ELSE PartialSplit(tps, ps, SplitsLoop(tps, ps, 2, SplitsStart(tps)))

\* arguments around the 50 m threshold: rows a kilometre, 50 m or 1 m apart,
\* 200 s apart or equal in time, and at most one pulse
PartialLats == {0, 1000, 1050, 1051}
PartialSamples ==
  {TrackpointRow(1, [lat |-> la, err |-> 5], t) : la \in PartialLats, t \in SplitTimes}
PartialInputs(n) ==
  {[trackpoints |-> s, pulses |-> p] :
     s \in {q \in SeqsUpTo(PartialSamples, n) :
              InCreatedAtOrder(q) /\ filterReliableTrackpoints(q) = q},
     p \in SeqsUpTo(SplitPulses, 1)}

InitPartial ==
  /\ lim = Limits
  /\ InitProgram
  /\ bk = NoBackup
  /\ calc \in {PureCall("partial", a) : a \in PartialInputs(MaxLen)}

\* computeKmSplits(trackpoints, pulses) of the variant that keeps the partial km
ApplyPartial ==
  /\ calc.fn = "partial"
  /\ ~calc.done
  /\ calc' = Returned(computeKmSplitsWithPartial(calc.arg.trackpoints, calc.arg.pulses))
  /\ OnlyCalc

SpecPartial == InitPartial /\ [][ApplyPartial]_vars

\* ------------------------------------------------------- heartrate.ts: frames
\* A characteristic value is a base64 string: wellFormed says whether atob accepts
\* it, bytes are the bytes it decodes to (bytes[1] is the code's bytes[0]).
\* parseHeartRate: null when atob throws or there are fewer than 2 bytes; the
\* 16-bit little-endian rate when bit 0 of the flags is set and there are 3
\* bytes or more; else byte 1
parseHeartRate(value) ==
  IF ~value.wellFormed THEN NULL
  ELSE LET bytes == value.bytes
       IN IF Len(bytes) < 2 THEN NULL
          ELSE LET flags == bytes[1]
                   is16Bit == (flags % 2) # 0
               IN IF is16Bit /\ Len(bytes) >= 3
                  THEN bytes[2] + bytes[3] * 256
                  ELSE bytes[2]

\* the frames a monitor sends: flag bytes with bit 0 clear and set, rates low and
\* high, up to n bytes; and a value that is not base64
FrameBytes == {0, 1, 6, 60, 255}
Frames(n) ==
  {[wellFormed |-> TRUE, bytes |-> b] : b \in SeqsUpTo(FrameBytes, n)}
    \cup {[wellFormed |-> FALSE, bytes |-> <<>>]}

\* a workout was started from the home screen and the monitor is connected and
\* subscribed; a frame is about to be delivered
InitParse ==
  /\ lim = Limits
  /\ workouts = startWorkout(<<>>, 1, 0)
  /\ wseq = 1
  /\ trackpoints = <<>>
  /\ pulses = <<>>
  /\ now = 0
  /\ mounted = [i \in Inst |-> i = "home"]
  /\ activeWorkout = [i \in Inst |-> IF i = "home" THEN 1 ELSE NULL]
  /\ hrActiveId = 1
  /\ locRegs = 1
  /\ calls = EmptyBag
  /\ task = IdleTask
  /\ backupStatus = "idle"
  /\ uploads = 0
  /\ snapshot = NoSnapshot
  /\ snapBase = NoSnapshotCall
  /\ lastEvent = "none"
  /\ link = connectSucceeded(LinkDown)
  /\ retries = EmptyBag
  /\ effectDep = NULL
  /\ bk = NoBackup
  /\ calc \in {PureCall("parse", f) : f \in Frames(MaxLen)}

\* the monitor callback of subscribeToHeartRate for the value calc.arg: nothing
\* for an empty value or one parseHeartRate returns null for; else notifyBpm(bpm)
\* and, a workout being active, insertPulse(_activeWorkoutId, bpm)
HrRawNotification ==
  /\ calc.fn = "parse"
  /\ ~calc.done
  /\ link.sub /\ link.up
  /\ LET bpm == parseHeartRate(calc.arg)
     IN /\ calc' = Returned(bpm)
        /\ IF bpm # NULL
           THEN /\ link' = [link EXCEPT !.lastBpm = bpm]
                /\ pulses' = IF hrActiveId # NULL /\ FkInsertOk(workouts, hrActiveId)
                             THEN Append(pulses, PulseRow(hrActiveId, bpm, now))
                             ELSE pulses
           ELSE UNCHANGED <<link, pulses>>
  /\ UNCHANGED <<workouts, wseq, trackpoints, now, mounted, activeWorkout, hrActiveId,
                 locRegs, calls, task, backupVars, snapVars, lastEvent, lim, retries, bk, effectDep>>

SpecParse == InitParse /\ [][HrRawNotification]_vars

\* ------------------------------------------------------- backup.ts: the files
\* `bk` follows the runs of backupDatabase and backupWithLogs and the two
\* directories they write:
\*   dir    the snapshot files in Documents/backups, by name
\*   cache  the transient snapshot files in the cache directory, by name
\*   runs   the runs suspended on their upload
\*   last   the run that returned last
\* A file hardwayhome-<ISO timestamp>.sqlite is named by its timestamp: the ISO
\* form has a fixed width, so the order of the names is the order of the
\* timestamps. Files of earlier sessions carry negative timestamps.
MAX_LOCAL_BACKUPS == 10

Procs == {"backupDatabase", "backupWithLogs"}

\* a run: the procedure, the filename it chose, whether createSnapshot returned,
\* how localBackup ended ("ok"; "not_copied" when it threw before or in the copy;
\* "not_pruned" when a delete threw), how many old files it deleted, how far the
\* upload got, and what the run returned
NoRun == [proc |-> "none", name |-> 0, snapshot |-> FALSE, local |-> "none",
          deleted |-> 0, upload |-> "none", result |-> "none"]
NewRun(proc, name) == [NoRun EXCEPT !.proc = proc, !.name = name]

BackupFiles(old) == [dir |-> {-k : k \in 1..old}, cache |-> {}, runs |-> EmptyBag,
                     last |-> NoRun]

\* the slice taken after sorting ascending: the files with MAX_LOCAL_BACKUPS or
\* more files of a smaller name
ExcessAscending(d) == {f \in d : Cardinality({g \in d : g < f}) >= MAX_LOCAL_BACKUPS}

\* backupFiles.sort(descending by name).slice(MAX_LOCAL_BACKUPS): the files with
\* MAX_LOCAL_BACKUPS or more files of a greater name
Excess(d) == {f \in d : Cardinality({g \in d : g > f}) >= MAX_LOCAL_BACKUPS}

\* the first n files the pruning loop deletes: it walks the slice in its order,
\* greatest name first
FirstDeleted(d, n) == {f \in Excess(d) : Cardinality({g \in Excess(d) : g > f}) < n}

\* how localBackup can end for directory d and a new file: backupDir.create()
\* or snapshotFile.copy() throws (copy is FALSE); the copy is made and the j-th
\* old.delete() throws (throwAt = j >= 1); nothing throws (throwAt = 0)
LocalOutcomes(d, name) ==
  {[copy |-> FALSE, throwAt |-> 0]}
    \cup {[copy |-> TRUE, throwAt |-> j] : j \in 0..Cardinality(Excess(d \cup {name}))}

\* localBackup(snapshotFile, filename): the directory it leaves, and whether it
\* returned (ok) or threw
localBackup(d, name, outcome) ==
  IF ~outcome.copy THEN [dir |-> d, ok |-> FALSE]
  ELSE LET copied == d \cup {name}
       IN IF outcome.throwAt = 0
          THEN [dir |-> copied \ Excess(copied), ok |-> TRUE]
          ELSE [dir |-> copied \ FirstDeleted(copied, outcome.throwAt - 1), ok |-> FALSE]

\* cleanupSnapshot that deletes nothing
cleanupSkipped(c, name) == c

\* cleanupSnapshot(file): if (file.exists) file.delete()
cleanupSnapshot(c, name) == c \ {name}

\* what a run returns when it did not succeed: backupDatabase 'failed',
\* backupWithLogs false
Failure(proc) == IF proc = "backupDatabase" THEN "failed" ELSE "false"

\* a snapshot failure after which the local copy is made all the same
SnapshotFailureCopies(b, run) ==
  [b EXCEPT !.dir = @ \cup {run.name}, !.last = [run EXCEPT !.result = Failure(run.proc)]]

\* createSnapshot threw: `return 'failed'` (backupDatabase), `return false` with
\* snapshotFile still null in the finally (backupWithLogs)
SnapshotFailure(b, run) == [b EXCEPT !.last = [run EXCEPT !.result = Failure(run.proc)]]

\* The synchronous part of a run, from the timestamp to the first await or the
\* return: createSnapshot, localBackup inside its try/catch, the endpoint test.
\* The clock has moved on when it ends, so no two runs choose the same filename.
BackupRun(proc, snapOk, outcome, urlSet) ==
  /\ MainIdle
  /\ now < lim.time
  /\ BagCardinality(bk.runs) < lim.calls
  /\ now' = now + 1
  /\ LET run == NewRun(proc, now)
         lb == localBackup(bk.dir, now, outcome)
         made == [run EXCEPT !.snapshot = TRUE,
                             !.local = IF lb.ok THEN "ok"
                                       ELSE IF outcome.copy THEN "not_pruned"
                                       ELSE "not_copied",
                             !.deleted = Cardinality((bk.dir \cup {now}) \ lb.dir)]
     IN IF ~snapOk
        THEN /\ bk' = SnapshotFailure(bk, run)
             /\ UNCHANGED backupStatus
        ELSE IF ~urlSet
        THEN /\ bk' = [bk EXCEPT
                         !.dir = lb.dir,
                         !.cache = cleanupSnapshot(@ \cup {now}, now),
                         !.last = [made EXCEPT
                                     !.result = IF proc = "backupDatabase"
                                                THEN "not_configured" ELSE "false"]]
             /\ backupStatus' = IF proc = "backupDatabase"
                                THEN "not_configured" ELSE backupStatus
        ELSE /\ bk' = [bk EXCEPT
                         !.dir = lb.dir,
                         !.cache = @ \cup {now},
                         !.runs = @ (+) SetToBag({[made EXCEPT !.upload = "pending"]})]
             /\ backupStatus' = IF proc = "backupDatabase"
                                THEN "in_progress" ELSE backupStatus
  /\ UNCHANGED <<store, mounted, activeWorkout, hrActiveId, locRegs, calls, task,
                 uploads, snapVars, lastEvent, lim, linkVars, calc, effectDep>>

\* how an upload can end: the PUT is answered 2xx; it is answered with another
\* status; fetch rejects
UploadOutcomes == {"ok", "rejected", "threw"}

\* what a run returns after its upload: backupDatabase 'success' or, webdavUpload
\* having thrown, 'failed'; backupWithLogs true or false
UploadResult(proc, outcome) ==
  IF proc = "backupDatabase"
  THEN (IF outcome = "ok" THEN "success" ELSE "failed")
  ELSE (IF outcome = "ok" THEN "true" ELSE "false")

\* a failed upload that also removes the run's copy from Documents/backups
ResolvedWithRollback(b, r, outcome) ==
  [b EXCEPT !.dir = IF outcome = "ok" THEN @ ELSE @ \ {r.name},
            !.cache = cleanupSnapshot(@, r.name),
            !.runs = @ (-) SetToBag({r}),
            !.last = [r EXCEPT !.upload = outcome,
                               !.result = UploadResult(r.proc, outcome)]]

\* the files and the runs after run r's upload ended: cleanupSnapshot on every
\* branch of backupDatabase and in the finally of backupWithLogs
Resolved(b, r, outcome) ==
  [b EXCEPT !.cache = cleanupSnapshot(@, r.name),
            !.runs = @ (-) SetToBag({r}),
            !.last = [r EXCEPT !.upload = outcome,
                               !.result = UploadResult(r.proc, outcome)]]

\* a run that publishes nothing when its upload has ended
BackupResolveSilent(r, outcome) ==
  /\ MainIdle
  /\ BagIn(r, bk.runs)
  /\ bk' = Resolved(bk, r, outcome)
  /\ UNCHANGED <<store, now, mounted, activeWorkout, hrActiveId, locRegs, calls, task,
                 backupVars, snapVars, lastEvent, lim, linkVars, calc, effectDep>>

\* run r resumes after its upload. backupDatabase: setStatus('success') or, in
\* the catch, setStatus('failed'). backupWithLogs: setStatus('success'); nothing
\* for a response that is not ok; setStatus('failed') in the catch.
BackupResolve(r, outcome) ==
  /\ MainIdle
  /\ BagIn(r, bk.runs)
  /\ bk' = Resolved(bk, r, outcome)
  /\ backupStatus' =
       IF outcome = "ok" THEN "success"
       ELSE IF r.proc = "backupDatabase" \/ outcome = "threw" THEN "failed"
       ELSE backupStatus
  /\ UNCHANGED <<store, now, mounted, activeWorkout, hrActiveId, locRegs, calls, task,
                 uploads, snapVars, lastEvent, lim, linkVars, calc, effectDep>>

\* the app has kept snapshots of earlier runs, any number of them up to MaxOld
InitBackup ==
  /\ lim = BackupLimits
  /\ InitProgram
  /\ calc = NoCall
  /\ bk \in {BackupFiles(old) : old \in 0..MaxOld}

NextBackup ==
  \/ \E proc \in Procs, snapOk \in BOOLEAN, urlSet \in BOOLEAN :
       \E outcome \in LocalOutcomes(bk.dir, now) : BackupRun(proc, snapOk, outcome, urlSet)
  \/ \E r \in BagToSet(bk.runs), outcome \in UploadOutcomes : BackupResolve(r, outcome)

SpecBackup == InitBackup /\ [][NextBackup]_vars

\* initBackupStatus: setStatus(url ? 'idle' : 'not_configured'), called at launch
\* and by the settings screen when the endpoint is saved, cleared or about to be
\* used by backupWithLogs
initBackupStatus(urlSet) ==
  /\ MainIdle
  /\ backupStatus' = IF urlSet THEN "idle" ELSE "not_configured"
  /\ UNCHANGED <<store, now, mounted, activeWorkout, hrActiveId, locRegs, calls, task,
                 uploads, snapVars, lastEvent, lim, linkVars, pureVars, effectDep>>

\* the runs with the status re-evaluated at any moment between their steps
NextBackupStatus ==
  \/ NextBackup
  \/ \E urlSet \in BOOLEAN : initBackupStatus(urlSet)

\* every upload request is answered or rejects: the run named n, once suspended
\* on its upload, resumes
UploadsSettle ==
  \A n \in 0..MaxTime :
    WF_vars(\E r \in BagToSet(bk.runs), outcome \in UploadOutcomes :
              r.name = n /\ BackupResolve(r, outcome))

\* the status under runs that begin with an empty Documents/backups
InitBackupStatus ==
  /\ lim = BackupLimits
  /\ InitProgram
  /\ calc = NoCall
  /\ bk = BackupFiles(0)

SpecBackupFair == InitBackupStatus /\ [][NextBackupStatus]_vars /\ UploadsSettle

\* ======================================================= properties
Unfinished == {w \in DOMAIN workouts : workouts[w].finished_at = NULL}
Finished == {w \in DOMAIN workouts : workouts[w].finished_at # NULL}

\* C1: in every reachable state at most one Workout row has no finished_at.
C1_AtMostOneActive == Cardinality(Unfinished) <= 1

\* C2: every step that inserts a trackpoint inserts it for a workout whose row
\* exists and has no finished_at at the moment of the insert.
C2_InsertOnlyIntoActive ==
  [][Len(trackpoints') > Len(trackpoints) =>
       LET r == trackpoints'[Len(trackpoints')]
       IN /\ r.workout_id \in DOMAIN workouts
          /\ workouts[r.workout_id].finished_at = NULL]_vars

\* C3: no step changes finished_at, distance, avg_sec_per_km or avg_bpm of a
\* Workout row that already has finished_at set.
C3_FinishedIsImmutable ==
  [][\A w \in Finished : w \in DOMAIN workouts' => workouts'[w] = workouts[w]]_vars

RowsOf(rows, w) == Len(SelectSeq(rows, LAMBDA r : r.workout_id = w))

\* C4: discard is one atomic step: every step that removes PulseSample or
\* PositionSample rows of a workout removes its Workout row as well.
C4_DiscardIsAtomic ==
  [][\A w \in DOMAIN workouts :
       (RowsOf(pulses', w) < RowsOf(pulses, w)
          \/ RowsOf(trackpoints', w) < RowsOf(trackpoints, w))
       => w \notin DOMAIN workouts']_vars

IsPrefix(s, t) == Len(s) <= Len(t) /\ SubSeq(t, 1, Len(s)) = s

\* every row of database a is in database b
Includes(b, a) ==
  /\ \A w \in DOMAIN a.workouts : w \in DOMAIN b.workouts /\ b.workouts[w] = a.workouts[w]
  /\ IsPrefix(a.trackpoints, b.trackpoints)
  /\ IsPrefix(a.pulses, b.pulses)

\* every sample of database d references a Workout row of d
ReferentialIntegrity(d) ==
  /\ \A k \in 1..Len(d.trackpoints) : d.trackpoints[k].workout_id \in DOMAIN d.workouts
  /\ \A k \in 1..Len(d.pulses) : d.pulses[k].workout_id \in DOMAIN d.workouts

\* C5: the step that completes a snapshot produces the content of the store at
\* that instant of the call: it holds every row committed before the call
\* began, whole rows only, and every sample in it references a Workout row in it.
C5_SnapshotIsConsistent ==
  [][(snapshot'.taken /\ ~snapshot.taken) =>
       /\ snapshot'.db = Content
       /\ Includes(snapshot'.db, snapBase.db)
       /\ ReferentialIntegrity(snapshot'.db)]_vars

\* a snapshot that holds a trackpoint committed while the call was running
C5_Witness ==
  /\ snapshot.taken
  /\ snapshot.raced
  /\ snapshot.db.trackpoints # <<>>

\* C6: a resume registers the positional producer only when it is not
\* registered, so that the producer is never registered more than once.
C6_ResumeRegistersOnce ==
  [][\A c \in {d \in InFlight : d.op = "resume"} : LocRegister(c) => locRegs = 0]_vars

\* the orchestrator is Active for the active workout of the store, the
\* heart-rate producer holds its id, and the positional producer is registered
\* or the resume's startBackgroundLocationTracking() is still in flight
Reattached ==
  \E i \in Inst :
    /\ mounted[i]
    /\ activeWorkout[i] \in getActiveWorkout(workouts)
    /\ hrActiveId = activeWorkout[i]
    /\ locRegs >= 1 \/ \E c \in InFlight : c.op = "resume"

C8_FinishDistanceIsFiltered ==
  [][\A w \in Unfinished :
       (w \in DOMAIN workouts' /\ workouts'[w].finished_at # NULL) =>
         workouts'[w].distance =
           trackpointDistance(filterReliableTrackpoints(getTrackpoints(trackpoints, w)))]_vars

\* C9: start() up to the permission request, and its return when the permission
\* is not granted, change no row of the store, not the heart-rate producer's
\* workout id, not the producer registration and not the orchestrator's state.
C9_DeniedStartChangesNothing ==
  [][((\E i \in Inst : StartCall(i))
        \/ (\E c \in {d \in InFlight : d.op = "start"} : StartResolved(c, FALSE)))
       => UNCHANGED <<workouts, wseq, trackpoints, pulses, hrActiveId, locRegs,
                      activeWorkout>>]_vars

\* a start() has returned at the permission check: Idle, nothing stored
C9_Witness ==
  /\ lastEvent = "denied"
  /\ calls = EmptyBag
  /\ workouts = <<>>
  /\ hrActiveId = NULL
  /\ locRegs = 0
  /\ activeWorkout = NoWorkoutState

\* C10: whatever the outcome of the backup, a finish step leaves its workout
\* with finished_at and distance set and every orchestrator Idle, and no later
\* step (an upload that resolves or fails among them) unsets them.
C10_BackupNeverUndoesFinish ==
  [][/\ \A c \in {d \in InFlight : d.op = "finish" /\ d.pc = "run"} :
          \A snapOk \in BOOLEAN, localOk \in BOOLEAN, urlSet \in BOOLEAN :
            FinishOutcome(c, snapOk, localOk, urlSet) =>
              /\ activeWorkout' = NoWorkoutState
              /\ c.wid \in DOMAIN workouts =>
                   /\ c.wid \in DOMAIN workouts'
                   /\ workouts'[c.wid].finished_at # NULL
                   /\ workouts'[c.wid].distance # NULL
     /\ \A w \in Finished : w \in DOMAIN workouts' =>
          /\ workouts'[w].finished_at # NULL
          /\ workouts'[w].distance # NULL]_vars

\* a workout is finished and the upload its finish started has failed
C10_Witness ==
  /\ Finished # {}
  /\ backupStatus = "failed"
  /\ uploads = 0
  /\ activeWorkout = NoWorkoutState

Closures(rs, pc, n) ==
  CopiesIn([attempts |-> n, pc |-> pc, ref |-> TRUE], rs)
    + CopiesIn([attempts |-> n, pc |-> pc, ref |-> FALSE], rs)

\* C12: the automatic attempts that follow one unsolicited disconnect are made
\* by one tryReconnect closure: each attempt is started by the firing of one
\* pending 10 s timer of that closure and counts one more than the attempt
\* before, the closure never counts more than maxAttempts (30) attempts, and so
\* after its 30th attempt failed the timer it armed fires without an attempt.
C12_RetriesAreBounded ==
  /\ [](\A r \in BagToSet(retries) : r.attempts <= maxAttempts)
  /\ [][\A r \in BagToSet(retries') :
          /\ r.pc = "try"
          /\ Closures(retries', "try", r.attempts) > Closures(retries, "try", r.attempts)
          => /\ r.attempts <= maxAttempts
             /\ Closures(retries', "wait", r.attempts - 1)
                  < Closures(retries, "wait", r.attempts - 1)]_vars

\* the 30th attempt has failed and its timer is pending, the workout still active
C12_Witness ==
  /\ hrActiveId # NULL
  /\ link.state = "disconnected"
  /\ \E r \in BagToSet(retries) : r.attempts = maxAttempts /\ r.pc = "wait"

\* the closures of rs whose timer is pending ("wait") or whose connect is in
\* flight ("try")
Pending(rs, pc) ==
  LET sel == {r \in BagToSet(rs) : r.pc = pc}
  IN IF sel = {} THEN 0 ELSE BagCardinality([r \in sel |-> rs[r]])

\* C13: from disconnect() until the next unsolicited disconnect or successful
\* connect, no step arms a retry timer and no step starts an automatic
\* attempt, whether or not an attempt was in flight when disconnect() ran.
C13_DisconnectStopsRetries ==
  [][link.since = "disconnect"
       => /\ Pending(retries', "wait") <= Pending(retries, "wait")
          /\ Pending(retries', "try") <= Pending(retries, "try")]_vars

\* C14: once finish() or discard() has completed (no workout is unfinished, no
\* call of the hook is in flight and no workout is marked active for the
\* heart-rate service), no retry timer is pending and no automatic attempt is
\* in flight.
C14_EndStopsRetries ==
  (Unfinished = {} /\ calls = EmptyBag /\ hrActiveId = NULL) => retries = EmptyBag

\* C15: once a connect has succeeded and until the next disconnect event (an
\* unsolicited disconnect or disconnect()), with no connect of the user
\* interface pending, the connection state stays 'connected' and no automatic
\* reconnection attempt is started.
C15_SuccessEndsRetries ==
  [][(/\ link.since = "connected" /\ link'.since = "connected"
      /\ link.state = "connected"
      /\ link.connects = 0 /\ link'.connects = 0
      /\ ~link.closing)
       => /\ link'.state = "connected"
          /\ Pending(retries', "try") <= Pending(retries, "try")]_vars

\* the closure scheduleReconnect creates
FreshRetry == [attempts |-> 0, pc |-> "wait", ref |-> TRUE]

\* C16: handling an unsolicited disconnect sets the connection state to
\* 'disconnected'; when _activeWorkoutId is set at that moment it leaves
\* exactly one armed timer, that of a new retry schedule, and when no workout
\* is active it arms no timer and leaves the retry state as it was.
C16_DropSchedulesIffActive ==
  [][HrDeviceDisconnected
       => /\ link'.state = "disconnected"
          /\ IF hrActiveId # NULL
             THEN /\ CopiesIn(FreshRetry, retries') = 1
                  /\ Armed(retries') = SetToBag({FreshRetry})
             ELSE retries' = retries]_vars

\* a drop was handled while a workout was marked active
C16_Witness ==
  /\ link.since = "drop"
  /\ hrActiveId # NULL
  /\ CopiesIn(FreshRetry, retries) = 1

\* C17: when a connectToDevice call of the user interface fails, the connection
\* state becomes 'disconnected', the error is thrown to the caller, the saved
\* last-device setting is what it was, and the retry timers and closures are
\* what they were.
C17_FailedConnectIsClean ==
  [][HrConnectResolve(FALSE)
       => /\ link'.state = "disconnected"
          /\ link'.raised
          /\ link'.lastDevice = link.lastDevice
          /\ retries' = retries]_vars

\* a connect failed after an earlier one had saved the device
C17_Witness ==
  /\ link.raised
  /\ link.state = "disconnected"
  /\ link.lastDevice
  /\ link.connects = 0

\* C18: the location task's handler never ends in an exception and keeps
\* nothing from one invocation to the next; it takes a batch up for insertion
\* only for a workout that getActiveWorkout returned, so with no active workout
\* it inserts nothing; every row it inserts goes to that workout; a store call
\* that throws is caught: the tables are what they were, so the set of
\* unfinished workouts is, and the handler is ready for the next batch.
C18_TaskSwallowsFailures ==
  /\ [](task.pc \in {"idle", "ins"} /\ (task.pc = "idle" => task = IdleTask))
  /\ [][/\ (task.pc = "idle" /\ task'.pc = "ins")
             => task'.wid \in getActiveWorkout(workouts) /\ store' = store
        /\ trackpoints' # trackpoints
             => /\ task.pc = "ins"
                /\ Len(trackpoints') = Len(trackpoints) + 1
                /\ trackpoints'[Len(trackpoints')].workout_id = task.wid
                /\ workouts' = workouts
        /\ TaskStoreFails
             => /\ store' = store
                /\ Unfinished' = Unfinished
                /\ task' = IdleTask]_vars

\* the handler caught a failure and has taken up the next batch
C18_Witness ==
  /\ lastEvent = "swallowed"
  /\ task.pc = "ins"
  /\ task.wid \in getActiveWorkout(workouts)

\* the rows of workout wid in the order the handler inserted them, which is the
\* order the fixes were delivered in: batch after batch, and within a batch in
\* the order of the locations array
DeliveryOrder(wid) == SelectSeq(trackpoints, LAMBDA r : r.workout_id = wid)

C20_LinkAndTaskAreIndependent ==
  /\ [](task.pc = "ins" /\ FkInsertOk(workouts, task.wid)
          => ENABLED (\E fix \in Fixes :
                        TaskInsert(fix) /\ Len(trackpoints') = Len(trackpoints) + 1))
  /\ [][/\ (link' # link \/ retries' # retries)
             => /\ locRegs' = locRegs
                /\ task' = task
                /\ trackpoints' = trackpoints
        /\ (task' # task \/ trackpoints' # trackpoints)
             => /\ link' = link
                /\ retries' = retries
                /\ hrActiveId' = hrActiveId]_vars

\* the link has dropped and a retry is scheduled or has given up, the location
\* task is registered and a batch delivered since is waiting to be inserted
C20_Witness ==
  /\ link.since = "drop"
  /\ link.state = "disconnected"
  /\ locRegs > 0
  /\ task.pc = "ins"

\* C21: whatever rows the filter is given, no row of its result has an absent
\* accuracy or one at or above the 20 m threshold, and the first row of the
\* argument whose accuracy is present and below the threshold is in the result.
Accurate(tp) == tp.err # NULL /\ tp.err < 20
C21_AccuracyGate ==
  (calc.fn = "filter" /\ calc.done) =>
    /\ \A j \in 1..Len(calc.ret) : Accurate(calc.ret[j])
    /\ \A i \in 1..Len(calc.arg) :
         (Accurate(calc.arg[i]) /\ \A h \in 1..(i - 1) : ~Accurate(calc.arg[h]))
           => \E j \in 1..Len(calc.ret) : calc.ret[j] = calc.arg[i]

\* the filter has returned for an argument that begins with a row at the
\* threshold, then one without accuracy, then an accurate one
C21_Witness ==
  /\ calc.fn = "filter" /\ calc.done
  /\ Len(calc.arg) = 3
  /\ calc.arg[1].err = 20 /\ calc.arg[2].err = NULL /\ Accurate(calc.arg[3])
  /\ calc.ret = <<calc.arg[3]>>

\* C22: whatever rows the filter is given, two consecutive rows of its result, d
\* metres and t seconds apart, satisfy d <= 14 * t, equal timestamps included.
C22_SpeedBound ==
  (calc.fn = "filter" /\ calc.done) =>
    \A j \in 1..(Len(calc.ret) - 1) :
      haversineMetres(calc.ret[j].lat, calc.ret[j + 1].lat)
        <= 14 * (calc.ret[j + 1].created_at - calc.ret[j].created_at)

\* the same bound for the pairs of the result whose timestamps differ, which is
\* what the guard dt > 0 leaves of it
C22_SpeedBoundWhenTimeAdvances ==
  (calc.fn = "filter" /\ calc.done) =>
    \A j \in 1..(Len(calc.ret) - 1) :
      calc.ret[j + 1].created_at > calc.ret[j].created_at =>
        haversineMetres(calc.ret[j].lat, calc.ret[j + 1].lat)
          <= 14 * (calc.ret[j + 1].created_at - calc.ret[j].created_at)

\* C23: whatever rows the filter is given, its result is a subsequence of the
\* argument in the argument's order (nothing added, duplicated, reordered or
\* altered), and the call leaves the argument as it was.
RECURSIVE IsSubsequence(_, _)
IsSubsequence(a, b) ==
  IF a = <<>> THEN TRUE
  ELSE IF b = <<>> THEN FALSE
  ELSE IF Head(a) = Head(b) THEN IsSubsequence(Tail(a), Tail(b))
  ELSE IsSubsequence(a, Tail(b))

C23_ResultIsSubsequence ==
  /\ [](calc.fn = "filter" /\ calc.done => IsSubsequence(calc.ret, calc.arg))
  /\ [][calc.fn = "filter" => calc'.arg = calc.arg]_vars

\* the filter has returned the first and the third of three distinct accurate
\* rows, the second one being a teleport
C23_Witness ==
  /\ calc.fn = "filter" /\ calc.done
  /\ Len(calc.arg) = 3
  /\ \A i \in 1..3 : Accurate(calc.arg[i])
  /\ calc.arg[1] # calc.arg[3]
  /\ calc.ret = <<calc.arg[1], calc.arg[3]>>

\* C24: paceOverWindow returns no result when the sequence has fewer than two
\* samples or its total distance is below the window; otherwise it returns
\* (elapsed time / accumulated distance) * 1000 over the shortest trailing run
\* of samples whose accumulated distance reaches the window.
\*
\* TrailingDistance(s, i): the distance along the rows i..Len(s);
\* RunStart(s, w): the first row of the shortest trailing run reaching w
TrailingDistance(s, i) == trackpointDistance(SubSeq(s, i, Len(s)))
Reaches(s, w) == Len(s) >= 2 /\ TrailingDistance(s, 1) >= w
RunStart(s, w) ==
  CHOOSE i \in 1..(Len(s) - 1) :
    /\ TrailingDistance(s, i) >= w
    /\ \A k \in (i + 1)..(Len(s) - 1) : TrailingDistance(s, k) < w
IsPaceOverRun(r, s, w) ==
  LET i == RunStart(s, w)
  IN /\ r.some
     /\ r.num * TrailingDistance(s, i)
          = (s[Len(s)].created_at - s[i].created_at) * 1000 * r.den
PaceElapsed(s, w) == s[Len(s)].created_at - s[RunStart(s, w)].created_at

C24_PaceOverShortestRun ==
  (calc.fn = "pace" /\ calc.done) =>
    LET s == calc.arg.trackpoints
        w == calc.arg.windowMetres
    IN IF Reaches(s, w)
       THEN IsPaceOverRun(calc.ret, s, w)
       ELSE ~calc.ret.some

\* C24 as the code has it: no result, too, when no time elapsed over that run
C24_PaceOverShortestRunWhenTimeElapsed ==
  (calc.fn = "pace" /\ calc.done) =>
    LET s == calc.arg.trackpoints
        w == calc.arg.windowMetres
    IN IF Reaches(s, w) /\ PaceElapsed(s, w) > 0
       THEN IsPaceOverRun(calc.ret, s, w)
       ELSE ~calc.ret.some

\* a pace was returned over a trailing run that is shorter than the argument,
\* which moved before the run began
C24_Witness ==
  /\ calc.fn = "pace" /\ calc.done /\ calc.ret.some
  /\ Len(calc.arg.trackpoints) = 3
  /\ RunStart(calc.arg.trackpoints, calc.arg.windowMetres) = 2
  /\ calc.arg.trackpoints[1].lat # calc.arg.trackpoints[2].lat
  /\ calc.arg.trackpoints[1].created_at < calc.arg.trackpoints[2].created_at

\* C25: for every filtered sequence computeKmSplits closes one full split per
\* 1000 m multiple the cumulative distance crosses: there are floor(total
\* distance / 1000) full splits, and split k is closed at the first sample whose
\* cumulative distance reaches k * 1000, so the times of splits 1..k add up to
\* the time from the first sample to that one, also when one segment crosses
\* more than one multiple.
CumulativeDistance(s, i) == trackpointDistance(SubSeq(s, 1, i))
FirstReaching(s, d) ==
  CHOOSE i \in 1..Len(s) :
    /\ CumulativeDistance(s, i) >= d
    /\ \A h \in 1..(i - 1) : CumulativeDistance(s, h) < d
SplitSeconds(splits) == SumSeq([k \in 1..Len(splits) |-> splits[k].seconds])
C25_OneSplitPerKilometre ==
  (calc.fn = "splits" /\ calc.done) =>
    LET s == calc.arg.trackpoints
        n == trackpointDistance(s) \div 1000
    IN /\ Len(calc.ret) = n
       /\ \A k \in 1..n :
            SplitSeconds(SubSeq(calc.ret, 1, k))
              = s[FirstReaching(s, k * 1000)].created_at - s[1].created_at

\* the same when no segment crosses more than one multiple
C25_OneSplitPerKilometreSegmentwise ==
  (calc.fn = "splits" /\ calc.done) =>
    LET s == calc.arg.trackpoints
        n == trackpointDistance(s) \div 1000
    IN (\A i \in 2..Len(s) :
          CumulativeDistance(s, i) \div 1000 <= CumulativeDistance(s, i - 1) \div 1000 + 1)
       => /\ Len(calc.ret) = n
          /\ \A k \in 1..n :
               SplitSeconds(SubSeq(calc.ret, 1, k))
                 = s[FirstReaching(s, k * 1000)].created_at - s[1].created_at

\* C26: for every frame, if bit 0 of byte 0 is clear and the frame has at least
\* 2 bytes the decoded rate is byte 1; if bit 0 is set and the frame has at
\* least 3 bytes it is byte 1 + 256 * byte 2; every other frame is dropped: no
\* BPM is published and no pulse row is inserted.
DecodedRate(f) ==
  IF f.wellFormed /\ Len(f.bytes) >= 2 /\ f.bytes[1] % 2 = 0 THEN f.bytes[2]
  ELSE IF f.wellFormed /\ Len(f.bytes) >= 3 /\ f.bytes[1] % 2 = 1
       THEN f.bytes[2] + 256 * f.bytes[3]
       ELSE NULL
C26_FrameDecoding ==
  (calc.fn = "parse" /\ calc.done) =>
    LET rate == DecodedRate(calc.arg)
    IN /\ calc.ret = rate
       /\ link.lastBpm = rate
       /\ pulses = IF rate = NULL THEN <<>> ELSE <<PulseRow(hrActiveId, rate, now)>>

\* the same for the frames that are as long as their flag byte declares, or
\* shorter than 2 bytes
C26_FrameDecodingOfCompleteFrames ==
  (calc.fn = "parse" /\ calc.done
     /\ ~(calc.arg.wellFormed /\ Len(calc.arg.bytes) = 2 /\ calc.arg.bytes[1] % 2 = 1)) =>
    LET rate == DecodedRate(calc.arg)
    IN /\ calc.ret = rate
       /\ link.lastBpm = rate
       /\ pulses = IF rate = NULL THEN <<>> ELSE <<PulseRow(hrActiveId, rate, now)>>

C28_LocalAndRemoteAreIndependent ==
  [][/\ \A proc \in Procs :
          \A outcome \in LocalOutcomes(bk.dir, now) :
            (BackupRun(proc, TRUE, outcome, TRUE) /\ ~localBackup(bk.dir, now, outcome).ok)
              => /\ BagCardinality(bk'.runs) = BagCardinality(bk.runs) + 1
                 /\ \E r \in BagToSet(bk'.runs) :
                      r.proc = proc /\ r.name = now /\ r.upload = "pending"
     /\ \A r \in BagToSet(bk.runs) :
          \A outcome \in {"rejected", "threw"} :
            (BackupResolve(r, outcome) /\ r.local # "not_copied")
              => r.name \in bk'.dir]_vars

\* a run whose pruning threw went on to its upload, the upload failed, and the
\* copy the run made is in the retention directory
C28_Witness ==
  /\ bk.last.local = "not_pruned"
  /\ bk.last.upload \in {"rejected", "threw"}
  /\ bk.last.name \in bk.dir

\* C29: after every local-copy step that completes without error, however many
\* files earlier runs left, the retention directory holds at most 10 snapshot
\* files, and they are the ones with the greatest filenames among the files that
\* were there and the new one.
C29_KeepsTenGreatest ==
  [][\A proc \in Procs, urlSet \in BOOLEAN :
       \A outcome \in LocalOutcomes(bk.dir, now) :
         (BackupRun(proc, TRUE, outcome, urlSet) /\ localBackup(bk.dir, now, outcome).ok)
           => LET before == bk.dir \cup {now}
              IN /\ Cardinality(bk'.dir) <= 10
                 /\ bk'.dir \subseteq before
                 /\ Cardinality(before) >= 10 => Cardinality(bk'.dir) = 10
                 /\ Cardinality(before) < 10 => bk'.dir = before
                 /\ \A kept \in bk'.dir : \A gone \in before \ bk'.dir : gone < kept]_vars

\* a local copy completed in a directory that held eleven files: the two with
\* the smallest names were deleted and the new file is kept
C29_Witness ==
  /\ bk.last.local = "ok"
  /\ bk.last.deleted = 2
  /\ bk.last.name \in bk.dir
  /\ Cardinality(bk.dir) = MAX_LOCAL_BACKUPS

C31_ResultIsPublished ==
  [][(bk'.last # bk.last /\ bk'.last.proc = "backupDatabase")
       => backupStatus' = bk'.last.result]_vars

\* the same for the runs of backupDatabase whose snapshot was created
C31_ResultIsPublishedAfterSnapshot ==
  [][(bk'.last # bk.last /\ bk'.last.proc = "backupDatabase" /\ bk'.last.snapshot)
       => backupStatus' = bk'.last.result]_vars

\* C32: the heart-rate producer's workout id, when set, is the id of the
\* store's active workout, and every pulse is inserted under a workout that
\* exists and is unfinished at that moment.
C32_ProducerIdIsActiveWorkout ==
  /\ [](hrActiveId # NULL => hrActiveId \in getActiveWorkout(workouts))
  /\ [][Len(pulses') > Len(pulses)
          => LET id == pulses'[Len(pulses')].workout_id
             IN id \in DOMAIN workouts /\ workouts[id].finished_at = NULL]_vars

\* the workout screen's effect has run for the active workout and a pulse was
\* stored under it
C32_Witness ==
  /\ effectDep # NULL
  /\ hrActiveId = effectDep
  /\ \E k \in 1..Len(pulses) : pulses[k].workout_id = hrActiveId

\* C33: every stored trackpoint and every stored pulse references a row of
\* workouts; an insert under an id that has no row stores nothing, and a step
\* that removes a row of workouts leaves no sample referencing it.
C33_SamplesReferenceWorkouts ==
  /\ [](/\ \A k \in 1..Len(trackpoints) : trackpoints[k].workout_id \in DOMAIN workouts
        /\ \A k \in 1..Len(pulses) : pulses[k].workout_id \in DOMAIN workouts)
  /\ [][/\ Len(trackpoints') > Len(trackpoints)
             => trackpoints'[Len(trackpoints')].workout_id \in DOMAIN workouts
        /\ Len(pulses') > Len(pulses)
             => pulses'[Len(pulses')].workout_id \in DOMAIN workouts
        /\ \A w \in DOMAIN workouts \ DOMAIN workouts' :
             /\ \A k \in 1..Len(trackpoints) : trackpoints[k].workout_id # w
             /\ \A k \in 1..Len(pulses) : pulses[k].workout_id # w]_vars

\* a discard() has ended with its workout row still stored, held by a sample
\* that arrived between its statements
C33_Witness ==
  /\ mounted["workout"]
  /\ hrActiveId = NULL
  /\ calls = EmptyBag
  /\ \E k \in 1..Len(trackpoints) : trackpoints[k].workout_id \in DOMAIN workouts

\* C34: at most one reconnection chain exists: the retry timers that are armed
\* and the retry attempts whose connect is unresolved number at most one.
C34_OneReconnectionChain == BagCardinality(retries) <= 1

\* C35: while the published connection state is 'disconnected' no measurement
\* subscription is live, and no step publishes a BPM value or stores a pulse.
C35_DisconnectedIsSilent ==
  /\ [](link.state = "disconnected" => ~(link.sub /\ link.up))
  /\ [][link.state = "disconnected" /\ link'.state = "disconnected"
          => /\ link'.lastBpm \in {link.lastBpm, NULL}
             /\ Len(pulses') <= Len(pulses)]_vars

\* C36: with every upload settling, a run of backupDatabase that published
\* in_progress later ends having published success or failed, and whenever no
\* run is suspended on its upload the published status is not in_progress.
C36_InProgressEnds ==
  /\ [](bk.runs = EmptyBag => backupStatus # "in_progress")
  /\ \A n \in 0..MaxTime :
       (\E r \in BagToSet(bk.runs) : r.name = n /\ r.proc = "backupDatabase")
         ~> (/\ bk.last.name = n
             /\ bk.last.proc = "backupDatabase"
             /\ bk.last.upload \in UploadOutcomes
             /\ backupStatus \in {"success", "failed"})

\* a run of backupDatabase has ended and published while a run of
\* backupWithLogs begun beside it is still suspended on its upload
C36_Witness ==
  /\ bk.last.proc = "backupDatabase"
  /\ bk.last.upload \in UploadOutcomes
  /\ backupStatus \in {"success", "failed"}
  /\ \E r \in BagToSet(bk.runs) : r.proc = "backupWithLogs"

\* C37: filterReliableTrackpoints is idempotent: filtering what it returned
\* returns the same sequence.
C37_FilterIsIdempotent ==
  (calc.fn = "filter" /\ calc.done) => filterReliableTrackpoints(calc.ret) = calc.ret

\* the filter returned at least two samples after rejecting an accurate one for
\* its speed
C37_Witness ==
  /\ calc.fn = "filter" /\ calc.done
  /\ Len(calc.ret) >= 2
  /\ Len(SelectSeq(calc.arg, Accurate)) > Len(calc.ret)

\* C38: over pulses in created_at order every pulse is counted in the mean of at
\* most one split: the cursor never moves back, the sets of pulses counted by
\* two splits are disjoint, and a pulse whose time is a split boundary is
\* counted by a split that ends there and not by the one that follows. The
\* pulses a window counts are those averageBpmInWindow visits before its break
\* and adds; their number is the count behind the split's avgBpm.
CountedIn(ps, w) ==
  {i \in w.startIdx..Len(ps) :
     /\ ps[i].created_at >= w.startMs
     /\ \A j \in w.startIdx..i : ps[j].created_at <= w.endMs}
SplitWindows(tps, ps) ==
  IF Len(tps) < 2 THEN <<>> ELSE SplitsLoop(tps, ps, 2, SplitsStart(tps)).windows
C38_PulseCountedOnce ==
  (calc.fn = "splits" /\ calc.done) =>
    LET ps == calc.arg.pulses
        W == SplitWindows(calc.arg.trackpoints, ps)
    IN /\ Len(W) = Len(calc.ret)
       /\ \A k \in 1..Len(W) : calc.ret[k].avgBpm.count = Cardinality(CountedIn(ps, W[k]))
       /\ \A k \in 1..(Len(W) - 1) : W[k].startIdx <= W[k + 1].startIdx
       /\ \A j, k \in 1..Len(W) : j # k => CountedIn(ps, W[j]) \cap CountedIn(ps, W[k]) = {}
       /\ \A k \in 1..Len(W), i \in 1..Len(ps) :
            ps[i].created_at = W[k].endMs
              => /\ \E m \in 1..k : W[m].endMs = W[k].endMs /\ i \in CountedIn(ps, W[m])
                 /\ k < Len(W) => i \notin CountedIn(ps, W[k + 1])

\* two splits were closed, a pulse lies on the boundary between them and the
\* second split counted a later pulse
C38_Witness ==
  /\ calc.fn = "splits" /\ calc.done
  /\ Len(calc.ret) = 2
  /\ \E i \in 1..Len(calc.arg.pulses) :
       calc.arg.pulses[i].created_at
         = calc.arg.trackpoints[1].created_at + calc.ret[1].seconds
  /\ calc.ret[1].avgBpm.count > 0
  /\ calc.ret[2].avgBpm.count > 0

\* C39: the variant of computeKmSplits that keeps the partial kilometre returns
\* the closed splits followed by exactly one more split when the distance past
\* the last closed kilometre boundary (1000 m times the number of closed splits)
\* is more than 50 m and the last sample is later than the sample that closed
\* that boundary (the first sample when none was closed); else it returns the
\* closed splits alone.
C39_PartialSplit ==
  (calc.fn = "partial" /\ calc.done) =>
    LET s == calc.arg.trackpoints
        closed == computeKmSplits(s, calc.arg.pulses)
        k == Len(closed)
    IN IF /\ Len(s) >= 2
          /\ trackpointDistance(s) - 1000 * k > 50
          /\ s[Len(s)].created_at > s[1].created_at + SplitSeconds(closed)
       THEN /\ Len(calc.ret) = k + 1
            /\ SubSeq(calc.ret, 1, k) = closed
            /\ calc.ret[k + 1].km = k + 1
       ELSE calc.ret = closed

\* a split was closed and a partial split of 51 m follows it
C39_Witness ==
  /\ calc.fn = "partial" /\ calc.done
  /\ Len(calc.ret) = 2
  /\ trackpointDistance(calc.arg.trackpoints) = 1051

\* a split was closed and the 50 m that follow it, over 200 s, made none
C39_WitnessNone ==
  /\ calc.fn = "partial" /\ calc.done
  /\ Len(calc.ret) = 1
  /\ trackpointDistance(calc.arg.trackpoints) = 1050
  /\ calc.arg.trackpoints[Len(calc.arg.trackpoints)].created_at
       > calc.arg.trackpoints[1].created_at + calc.ret[1].seconds

====
